---- MODULE Spec2Model ----
(***************************************************************************)
(* A model of the boon JSON Schema engine: the schema pool (Schemas) that  *)
(* the compiler fills through enqueue / insert, and the validator          *)
(* (Schemas::validate, Schema::validate) that interprets the compiled      *)
(* nodes against a JSON value.                                             *)
(*                                                                         *)
(* Strings are sequences of chunks: a chunk is a piece of text without     *)
(* '#', '/' or '~', or one of those characters alone, so that              *)
(* concatenation, push('#') and rfind('#') are what they are in the code.  *)
(* An Option<T> is a sequence of length 0 (None) or 1 (Some).              *)
(* A HashMap is a sequence of [k, sch] entries that is visited in any      *)
(* order.  Schema indices are 0-based as in the code; list[i + 1] is the   *)
(* i-th element of the Vec.                                                *)
(***************************************************************************)
EXTENDS Integers, Sequences, FiniteSets, TLC

VARIABLES
    doc,      \* the raw document being compiled (one of Docs)
    list,     \* Schemas.list
    map,      \* Schemas.map : loc -> schema index
    queue,    \* the compiler's queue of locations
    issued,   \* history: <<loc, index, list.len()>> of every enqueue call
    phase,    \* "compile", "ready", "validating", "done", "panic"
    call,     \* the arguments of the running Schemas::validate call
    stack,    \* the frames of Schema::validate on the call stack (the scope chain)
    ret,      \* the result of the Schema::validate call that returned last
    result,   \* the result of Schemas::validate
    loader,   \* the DefaultUrlLoader: resources and loaders
    loaded,   \* the result of the DefaultUrlLoader::load call that returned last
    root,     \* a Root: its url and its resources
    resolved, \* the result of the call on root that returned last
    prev,     \* history: the arguments and the result of an earlier validate call
    parked,   \* the validate call of a second thread while it does not run
    output    \* the OutputUnit of the basic_output call that returned last

\* the state outside of compile and validate
port == <<loader, loaded, root, resolved, prev, parked, output>>

vars == <<doc, list, map, queue, issued, phase, call, stack, ret, result,
          loader, loaded, root, resolved, prev, parked, output>>

(***************************************************************************)
(* Bounds                                                                  *)
(***************************************************************************)
\* deepest nesting of the generated instance values {"a": {"a": ...}}
MaxNest == 2
\* most documents preloaded at a time with add_resource
MaxResources == 2
\* cap on the call stack, never reached by the validator (see StackBelowCap)
MaxStack == 12

(***************************************************************************)
(* JSON values (serde_json::Value).  A number is kept in tenths, so that   *)
(* 3.5 is 35 and fract() == 0 is divisibility by ten.                      *)
(***************************************************************************)
JNull == [type |-> "Null", num |-> 0, str |-> <<>>, arr |-> <<>>, obj |-> <<>>]
JNum(tenths) == [JNull EXCEPT !.type = "Number", !.num = tenths]
JStr(s) == [JNull EXCEPT !.type = "String", !.str = s]
JArr(a) == [JNull EXCEPT !.type = "Array", !.arr = a]
JObj(members) == [JNull EXCEPT !.type = "Object", !.obj = members]
Member(k, v) == [k |-> <<k>>, v |-> v]

ObjKeys(v) == {v.obj[n].k : n \in DOMAIN v.obj}
ObjGet(v, key) == v.obj[CHOOSE n \in DOMAIN v.obj : v.obj[n].k = key].v

RECURSIVE Nest(_)
Nest(d) == IF d = 0 THEN JNum(10) ELSE JObj(<<Member("a", Nest(d - 1))>>)

RECURSIVE Depth(_)
Depth(v) ==
    IF v.type = "Object" /\ v.obj # <<>>
    THEN 1 + (CHOOSE m \in {Depth(v.obj[n].v) : n \in DOMAIN v.obj} :
                \A x \in {Depth(v.obj[n].v) : n \in DOMAIN v.obj} : x <= m)
    ELSE IF v.type = "Array" /\ v.arr # <<>>
    THEN 1 + (CHOOSE m \in {Depth(v.arr[n]) : n \in DOMAIN v.arr} :
                \A x \in {Depth(v.arr[n]) : n \in DOMAIN v.arr} : x <= m)
    ELSE 0

Values ==
    {Nest(d) : d \in 0..MaxNest}
    \cup {JStr(<<"x">>),
          JObj(<<>>),
          JObj(<<Member("a", JStr(<<"x">>))>>),
          JObj(<<Member("a", JNum(10)), Member("b", JNum(20))>>),
          JObj(<<Member("b", JObj(<<Member("a", JNum(10))>>))>>),
          JObj(<<Member("a", JNum(10)), Member("b", JNum(20)), Member("c", JNum(30))>>),
          JNum(-5),
          JArr(<<>>),
          JArr(<<JStr(<<"x">>), JNum(10)>>),
          JArr(<<JStr(<<"x">>), JNum(10), JStr(<<"x">>)>>)}

(***************************************************************************)
(* Locations                                                               *)
(***************************************************************************)
\* the JSON pointer of a list of tokens, and the location url#pointer
RECURSIVE Ptr(_)
Ptr(toks) == IF toks = <<>> THEN <<>> ELSE <<"/", Head(toks)>> \o Ptr(Tail(toks))
Loc(url, toks) == <<url, "#">> \o Ptr(toks)

\* loc.rfind('#').is_none()
NoFragment(loc) == \A n \in DOMAIN loc : loc[n] # "#"

\* queue.iter().position(|e| *e == loc), 0-based, -1 for None
position(q, loc) ==
    IF \E n \in DOMAIN q : q[n] = loc
    THEN (CHOOSE n \in DOMAIN q : q[n] = loc /\ \A m \in 1..(n - 1) : q[m] # loc) - 1
    ELSE -1

(***************************************************************************)
(* Compiled schema nodes (struct Schema) and raw documents.  A raw node    *)
(* has the fields of a compiled node with locations where the compiled     *)
(* node has schema indices.                                                *)
(***************************************************************************)
Schema0 ==
    [draft_version |-> 2020, index |-> 0, loc |-> <<>>, resource |-> 0,
     dynamic_anchors |-> <<>>, boolean |-> <<>>, ref_ |-> <<>>,
     recursive_ref |-> <<>>, recursive_anchor |-> FALSE, dynamic_ref |-> <<>>,
     dynamic_anchor |-> <<>>, types |-> <<>>, all_of |-> <<>>,
     required |-> <<>>, properties |-> <<>>, additional_properties |-> <<>>,
     any_of |-> <<>>, one_of |-> <<>>, if_ |-> <<>>, then |-> <<>>, else_ |-> <<>>,
     dependent_schemas |-> <<>>, pattern_properties |-> <<>>,
     unevaluated_properties |-> <<>>, items |-> <<>>, additional_items |-> <<>>,
     prefix_items |-> <<>>, items2020 |-> <<>>, minimum |-> <<>>,
     contains |-> <<>>, not |-> <<>>, unevaluated_items |-> <<>>]

\* enum Additional
AdditionalBool(b) == [tag |-> "Bool", b |-> b, sch |-> 0]
AdditionalSchemaRef(s) == [tag |-> "SchemaRef", b |-> FALSE, sch |-> s]

\* enum Items
ItemsSchemaRef(s) == [tag |-> "SchemaRef", sch |-> s, list |-> <<>>]
ItemsSchemaRefs(l) == [tag |-> "SchemaRefs", sch |-> 0, list |-> l]

Raw(res) == [Schema0 EXCEPT !.resource = res]
Entry(k, s) == [k |-> k, sch |-> s]
Node(loc, raw) == [loc |-> loc, raw |-> raw]

MapSeq(s, Op(_)) == [n \in DOMAIN s |-> Op(s[n])]

\* the locations a raw node refers to, in the order they are enqueued
RefLocs(raw) ==
    <<raw.resource>>
    \o MapSeq(raw.dynamic_anchors, LAMBDA e : e.sch)
    \o MapSeq(raw.properties, LAMBDA e : e.sch)
    \o MapSeq(SelectSeq(raw.additional_properties, LAMBDA a : a.tag = "SchemaRef"),
              LAMBDA a : a.sch)
    \o raw.ref_ \o raw.recursive_ref \o raw.dynamic_ref \o raw.all_of
    \o raw.any_of \o raw.one_of \o raw.if_ \o raw.then \o raw.else_
    \o MapSeq(raw.dependent_schemas, LAMBDA e : e.sch)
    \o MapSeq(raw.pattern_properties, LAMBDA e : e.sch)
    \o raw.unevaluated_properties
    \o MapSeq(SelectSeq(raw.items, LAMBDA a : a.tag = "SchemaRef"), LAMBDA a : a.sch)
    \o (IF raw.items # <<>> THEN raw.items[1].list ELSE <<>>)
    \o MapSeq(SelectSeq(raw.additional_items, LAMBDA a : a.tag = "SchemaRef"),
              LAMBDA a : a.sch)
    \o raw.prefix_items \o raw.items2020
    \o raw.contains \o raw.not \o raw.unevaluated_items

DocGet(d, loc) == d.nodes[CHOOSE n \in DOMAIN d.nodes : d.nodes[n].loc = loc].raw

(***************************************************************************)
(* Schemas: enqueue, insert, get, get_by_loc, contains                     *)
(***************************************************************************)
\* enqueue that returns the bare queue position of a queued location
enqueue_queue_position(q, loc0) ==
    LET loc == IF NoFragment(loc0) THEN Append(loc0, "#") ELSE loc0
        qindex == position(q, loc)
    IN  IF loc \in DOMAIN map
        THEN [queue |-> q, index |-> map[loc], loc |-> loc]
        ELSE IF qindex >= 0
        THEN [queue |-> q, index |-> qindex, loc |-> loc]
        ELSE [queue |-> Append(q, loc),
              index |-> Len(list) + Len(Append(q, loc)) - 1, loc |-> loc]

\* enqueue that returns list.len() + queue.len() for a new location
enqueue_past_end(q, loc0) ==
    LET loc == IF NoFragment(loc0) THEN Append(loc0, "#") ELSE loc0
        qindex == position(q, loc)
    IN  IF loc \in DOMAIN map
        THEN [queue |-> q, index |-> map[loc], loc |-> loc]
        ELSE IF qindex >= 0
        THEN [queue |-> q, index |-> Len(list) + qindex, loc |-> loc]
        ELSE [queue |-> Append(q, loc),
              index |-> Len(list) + Len(Append(q, loc)), loc |-> loc]

\* enqueue that does not look for the location in the queue
enqueue_no_queue_check(q, loc0) ==
    LET loc == IF NoFragment(loc0) THEN Append(loc0, "#") ELSE loc0
    IN  IF loc \in DOMAIN map
        THEN [queue |-> q, index |-> map[loc], loc |-> loc]
        ELSE [queue |-> Append(q, loc),
              index |-> Len(list) + Len(Append(q, loc)) - 1, loc |-> loc]

\* Schemas::enqueue: the queue it leaves and the index it returns
enqueue(q, loc0) ==
    LET loc == IF NoFragment(loc0) THEN Append(loc0, "#") ELSE loc0
        qindex == position(q, loc)
    IN  IF loc \in DOMAIN map
        THEN [queue |-> q, index |-> map[loc], loc |-> loc]
        ELSE IF qindex >= 0
        THEN [queue |-> q, index |-> Len(list) + qindex, loc |-> loc]
        ELSE [queue |-> Append(q, loc),
              index |-> Len(list) + Len(Append(q, loc)) - 1, loc |-> loc]

\* insert that takes the index after the push
insert_index_after_push(loc, sch) ==
    [list |-> Append(list, sch),
     map |-> [l \in DOMAIN map \cup {loc} |->
                IF l = loc THEN Len(Append(list, sch)) ELSE map[l]],
     index |-> Len(Append(list, sch))]

\* Schemas::insert: the list and map it leaves and the index it returns
insert(loc, sch) ==
    [list |-> Append(list, sch),
     map |-> [l \in DOMAIN map \cup {loc} |-> IF l = loc THEN Len(list) ELSE map[l]],
     index |-> Len(list)]

\* Schemas::contains
contains(sch_index) == (sch_index + 1) \in DOMAIN list

\* Schemas::get; an index out of range panics (InRange guards every use)
get(index) == list[index + 1]

\* Schemas::get_by_loc, an Option
get_by_loc(loc0) ==
    LET loc == IF NoFragment(loc0) THEN Append(loc0, "#") ELSE loc0
    IN  IF loc \in DOMAIN map /\ contains(map[loc]) THEN <<list[map[loc] + 1]>> ELSE <<>>

(***************************************************************************)
(* The compile loop: the front of the queue is compiled while it is still  *)
(* in the queue, every location it refers to is enqueued, and the node is  *)
(* inserted as the front is popped.                                        *)
(***************************************************************************)
\* the orders in which a HashSet or a HashMap can be iterated
Orders(set) ==
    {o \in [1..Cardinality(set) -> set] : \A x \in set : \E n \in DOMAIN o : o[n] = x}

\* the enqueue calls for locs, in order: the queue left and the indices returned
RECURSIVE EnqueueAll(_, _)
EnqueueAll(q, locs) ==
    IF locs = <<>> THEN [queue |-> q, idxs |-> <<>>, locs |-> <<>>]
    ELSE LET e == enqueue(q, Head(locs))
             r == EnqueueAll(e.queue, Tail(locs))
         IN  [queue |-> r.queue, idxs |-> <<e.index>> \o r.idxs,
              locs |-> <<e.loc>> \o r.locs]

\* the compiled node of a raw node: every location replaced by the index
\* enqueue returned for it
Build(raw, loc, index, locs, idxs) ==
    LET IdxOf(l) == idxs[CHOOSE n \in DOMAIN locs : locs[n] = l]
        Sub(s) == MapSeq(s, IdxOf)
        SubE(s) == MapSeq(s, LAMBDA e : Entry(e.k, IdxOf(e.sch)))
    IN  [raw EXCEPT
            !.index = index,
            !.loc = loc,
            !.resource = IdxOf(raw.resource),
            !.dynamic_anchors = SubE(raw.dynamic_anchors),
            !.properties = SubE(raw.properties),
            !.additional_properties =
                MapSeq(raw.additional_properties,
                       LAMBDA a : IF a.tag = "SchemaRef"
                                  THEN AdditionalSchemaRef(IdxOf(a.sch)) ELSE a),
            !.ref_ = Sub(raw.ref_),
            !.recursive_ref = Sub(raw.recursive_ref),
            !.dynamic_ref = Sub(raw.dynamic_ref),
            !.all_of = Sub(raw.all_of),
            !.any_of = Sub(raw.any_of),
            !.one_of = Sub(raw.one_of),
            !.if_ = Sub(raw.if_),
            !.then = Sub(raw.then),
            !.else_ = Sub(raw.else_),
            !.dependent_schemas = SubE(raw.dependent_schemas),
            !.pattern_properties = SubE(raw.pattern_properties),
            !.unevaluated_properties = Sub(raw.unevaluated_properties),
            !.items =
                MapSeq(raw.items,
                       LAMBDA a : IF a.tag = "SchemaRef"
                                  THEN ItemsSchemaRef(IdxOf(a.sch))
                                  ELSE ItemsSchemaRefs(Sub(a.list))),
            !.additional_items =
                MapSeq(raw.additional_items,
                       LAMBDA a : IF a.tag = "SchemaRef"
                                  THEN AdditionalSchemaRef(IdxOf(a.sch)) ELSE a),
            !.prefix_items = Sub(raw.prefix_items),
            !.items2020 = Sub(raw.items2020),
            !.contains = Sub(raw.contains),
            !.not = Sub(raw.not),
            !.unevaluated_items = Sub(raw.unevaluated_items)]

(***************************************************************************)
(* Documents                                                               *)
(***************************************************************************)
A == <<"a">>
B == <<"b">>

\* {"properties": {"a": true, "b": false}}
DocBool ==
    LET r == Loc("b", <<>>)
        pa == Loc("b", <<"properties", "a">>)
        pb == Loc("b", <<"properties", "b">>)
    IN  [entry |-> <<"b">>,
         nodes |-> <<
            Node(r, [Raw(r) EXCEPT !.properties = <<Entry(A, pa), Entry(B, pb)>>]),
            Node(pa, [Raw(r) EXCEPT !.boolean = <<TRUE>>]),
            Node(pb, [Raw(r) EXCEPT !.boolean = <<FALSE>>])>>]

\* {"properties": {"a": {"type": "string"}}, "required": ["a"],
\*  "additionalProperties": false}
DocEx4 ==
    LET r == Loc("e", <<>>)
        pa == Loc("e", <<"properties", "a">>)
    IN  [entry |-> r,
         nodes |-> <<
            Node(r, [Raw(r) EXCEPT !.properties = <<Entry(A, pa)>>,
                                   !.required = <<A>>,
                                   !.additional_properties = <<AdditionalBool(FALSE)>>]),
            Node(pa, [Raw(r) EXCEPT !.types = <<"String">>])>>]

\* {"properties": {"a": {}}, "additionalProperties": {"type": "string"}}
DocAddl ==
    LET r == Loc("h", <<>>)
        pa == Loc("h", <<"properties", "a">>)
        ap == Loc("h", <<"additionalProperties">>)
    IN  [entry |-> r,
         nodes |-> <<
            Node(r, [Raw(r) EXCEPT !.properties = <<Entry(A, pa)>>,
                                   !.additional_properties = <<AdditionalSchemaRef(ap)>>]),
            Node(pa, Raw(r)),
            Node(ap, [Raw(r) EXCEPT !.types = <<"String">>])>>]

\* {"allOf": [{"$ref": "#"}, {"type": "string", "required": ["a", "b"]}],
\*  "$ref": "#/$defs/x", "$defs": {"x": {"type": "string", "required": ["b"]}}}
DocAllOf ==
    LET r == Loc("s", <<>>)
        a0 == Loc("s", <<"allOf", "0">>)
        a1 == Loc("s", <<"allOf", "1">>)
        x == Loc("s", <<"$defs", "x">>)
    IN  [entry |-> r,
         nodes |-> <<
            Node(r, [Raw(r) EXCEPT !.all_of = <<a0, a1>>, !.ref_ = <<x>>]),
            Node(a0, [Raw(r) EXCEPT !.ref_ = <<<<"s">>>>]),
            Node(a1, [Raw(r) EXCEPT !.types = <<"String">>, !.required = <<A, B>>]),
            Node(x, [Raw(r) EXCEPT !.types = <<"String">>, !.required = <<B>>])>>]

C == <<"c">>

\* {"unevaluatedProperties": false,
\*  "allOf": [{"properties": {"a": {}}}, {"properties": {"b": {}}}]}
DocUneval ==
    LET r == Loc("v", <<>>)
        a0 == Loc("v", <<"allOf", "0">>)
        a1 == Loc("v", <<"allOf", "1">>)
        pa == Loc("v", <<"allOf", "0", "properties", "a">>)
        pb == Loc("v", <<"allOf", "1", "properties", "b">>)
        up == Loc("v", <<"unevaluatedProperties">>)
    IN  [entry |-> r,
         nodes |-> <<
            Node(r, [Raw(r) EXCEPT !.all_of = <<a0, a1>>,
                                   !.unevaluated_properties = <<up>>]),
            Node(a0, [Raw(r) EXCEPT !.properties = <<Entry(A, pa)>>]),
            Node(a1, [Raw(r) EXCEPT !.properties = <<Entry(B, pb)>>]),
            Node(pa, Raw(r)),
            Node(pb, Raw(r)),
            Node(up, [Raw(r) EXCEPT !.boolean = <<FALSE>>])>>]

\* {"anyOf": [{"type": "object", "properties": {"a": {"type": "number"}}},
\*            {"type": "object", "required": ["b"], "properties": {"b": {}}},
\*            {"type": ["object", "array"]}],
\*  "unevaluatedProperties": false}
DocAnyOf ==
    LET r == Loc("y", <<>>)
        b0 == Loc("y", <<"anyOf", "0">>)
        b1 == Loc("y", <<"anyOf", "1">>)
        b2 == Loc("y", <<"anyOf", "2">>)
        pa == Loc("y", <<"anyOf", "0", "properties", "a">>)
        pb == Loc("y", <<"anyOf", "1", "properties", "b">>)
        up == Loc("y", <<"unevaluatedProperties">>)
    IN  [entry |-> r,
         nodes |-> <<
            Node(r, [Raw(r) EXCEPT !.any_of = <<b0, b1, b2>>,
                                   !.unevaluated_properties = <<up>>]),
            Node(b0, [Raw(r) EXCEPT !.types = <<"Object">>,
                                    !.properties = <<Entry(A, pa)>>]),
            Node(b1, [Raw(r) EXCEPT !.types = <<"Object">>, !.required = <<B>>,
                                    !.properties = <<Entry(B, pb)>>]),
            Node(b2, [Raw(r) EXCEPT !.types = <<"Object", "Array">>]),
            Node(pa, [Raw(r) EXCEPT !.types = <<"Number">>]),
            Node(pb, Raw(r)),
            Node(up, [Raw(r) EXCEPT !.boolean = <<FALSE>>])>>]

\* {"oneOf": [{"type": "integer"}, {"minimum": 0}]}
DocOneOf ==
    LET r == Loc("w", <<>>)
        o0 == Loc("w", <<"oneOf", "0">>)
        o1 == Loc("w", <<"oneOf", "1">>)
    IN  [entry |-> r,
         nodes |-> <<
            Node(r, [Raw(r) EXCEPT !.one_of = <<o0, o1>>]),
            Node(o0, [Raw(r) EXCEPT !.types = <<"Integer">>]),
            Node(o1, [Raw(r) EXCEPT !.minimum = <<0>>])>>]

\* {"oneOf": [{"required": ["a"], "properties": {"a": {}}},
\*            {"required": ["b"], "properties": {"b": {}}},
\*            {"type": "string"},
\*            {"type": "object", "required": ["c"]}],
\*  "unevaluatedProperties": false}
DocOneOf4 ==
    LET r == Loc("z", <<>>)
        o0 == Loc("z", <<"oneOf", "0">>)
        o1 == Loc("z", <<"oneOf", "1">>)
        o2 == Loc("z", <<"oneOf", "2">>)
        o3 == Loc("z", <<"oneOf", "3">>)
        pa == Loc("z", <<"oneOf", "0", "properties", "a">>)
        pb == Loc("z", <<"oneOf", "1", "properties", "b">>)
        up == Loc("z", <<"unevaluatedProperties">>)
    IN  [entry |-> r,
         nodes |-> <<
            Node(r, [Raw(r) EXCEPT !.one_of = <<o0, o1, o2, o3>>,
                                   !.unevaluated_properties = <<up>>]),
            Node(o0, [Raw(r) EXCEPT !.required = <<A>>,
                                    !.properties = <<Entry(A, pa)>>]),
            Node(o1, [Raw(r) EXCEPT !.required = <<B>>,
                                    !.properties = <<Entry(B, pb)>>]),
            Node(o2, [Raw(r) EXCEPT !.types = <<"String">>]),
            Node(o3, [Raw(r) EXCEPT !.types = <<"Object">>, !.required = <<C>>]),
            Node(pa, Raw(r)),
            Node(pb, Raw(r)),
            Node(up, [Raw(r) EXCEPT !.boolean = <<FALSE>>])>>]

\* {"if": {"required": ["a"]}, "then": {"properties": {"a": {"type": "string"}}},
\*  "else": {"type": "string"}}
DocIf ==
    LET r == Loc("i", <<>>)
        i == Loc("i", <<"if">>)
        t == Loc("i", <<"then">>)
        e == Loc("i", <<"else">>)
        pa == Loc("i", <<"then", "properties", "a">>)
    IN  [entry |-> r,
         nodes |-> <<
            Node(r, [Raw(r) EXCEPT !.if_ = <<i>>, !.then = <<t>>, !.else_ = <<e>>]),
            Node(i, [Raw(r) EXCEPT !.required = <<A>>]),
            Node(t, [Raw(r) EXCEPT !.properties = <<Entry(A, pa)>>]),
            Node(e, [Raw(r) EXCEPT !.types = <<"String">>]),
            Node(pa, [Raw(r) EXCEPT !.types = <<"String">>])>>]

\* {"then": false, "else": false,
\*  "allOf": [{"if": {"type": "object"}, "then": false},
\*            {"if": {"type": "object"}, "else": false}]}
DocIfPart ==
    LET r == Loc("j", <<>>)
        t == Loc("j", <<"then">>)
        e == Loc("j", <<"else">>)
        a0 == Loc("j", <<"allOf", "0">>)
        a1 == Loc("j", <<"allOf", "1">>)
        i0 == Loc("j", <<"allOf", "0", "if">>)
        t0 == Loc("j", <<"allOf", "0", "then">>)
        i1 == Loc("j", <<"allOf", "1", "if">>)
        e1 == Loc("j", <<"allOf", "1", "else">>)
    IN  [entry |-> r,
         nodes |-> <<
            Node(r, [Raw(r) EXCEPT !.then = <<t>>, !.else_ = <<e>>,
                                   !.all_of = <<a0, a1>>]),
            Node(t, [Raw(r) EXCEPT !.boolean = <<FALSE>>]),
            Node(e, [Raw(r) EXCEPT !.boolean = <<FALSE>>]),
            Node(a0, [Raw(r) EXCEPT !.if_ = <<i0>>, !.then = <<t0>>]),
            Node(a1, [Raw(r) EXCEPT !.if_ = <<i1>>, !.else_ = <<e1>>]),
            Node(i0, [Raw(r) EXCEPT !.types = <<"Object">>]),
            Node(t0, [Raw(r) EXCEPT !.boolean = <<FALSE>>]),
            Node(i1, [Raw(r) EXCEPT !.types = <<"Object">>]),
            Node(e1, [Raw(r) EXCEPT !.boolean = <<FALSE>>])>>]

\* {"properties": {"a": {}}, "patternProperties": {"b": {"type": "number"}},
\*  "additionalProperties": false}
DocPattern ==
    LET r == Loc("q", <<>>)
        pa == Loc("q", <<"properties", "a">>)
        pp == Loc("q", <<"patternProperties", "b">>)
    IN  [entry |-> r,
         nodes |-> <<
            Node(r, [Raw(r) EXCEPT !.properties = <<Entry(A, pa)>>,
                                   !.pattern_properties = <<Entry(B, pp)>>,
                                   !.additional_properties = <<AdditionalBool(FALSE)>>]),
            Node(pa, Raw(r)),
            Node(pp, [Raw(r) EXCEPT !.types = <<"Number">>])>>]

\* {"properties": {"a": {}},
\*  "dependentSchemas": {"a": {"properties": {"b": {}}}},
\*  "additionalProperties": false}
DocDep ==
    LET r == Loc("k", <<>>)
        pa == Loc("k", <<"properties", "a">>)
        ds == Loc("k", <<"dependentSchemas", "a">>)
        pb == Loc("k", <<"dependentSchemas", "a", "properties", "b">>)
    IN  [entry |-> r,
         nodes |-> <<
            Node(r, [Raw(r) EXCEPT !.properties = <<Entry(A, pa)>>,
                                   !.dependent_schemas = <<Entry(A, ds)>>,
                                   !.additional_properties = <<AdditionalBool(FALSE)>>]),
            Node(pa, Raw(r)),
            Node(ds, [Raw(r) EXCEPT !.properties = <<Entry(B, pb)>>]),
            Node(pb, Raw(r))>>]

\* draft 2019-09: {"items": [{"type": "string"}], "additionalItems": false,
\*  "$defs": {"n": {"items": [{"type": "string"}],
\*                  "additionalItems": {"type": "number"}},
\*            "m": {"items": {"type": "string"}, "additionalItems": false}}}
DocTuple ==
    LET r == Loc("m", <<>>)
        i0 == Loc("m", <<"items", "0">>)
        n == Loc("m", <<"$defs", "n">>)
        n0 == Loc("m", <<"$defs", "n", "items", "0">>)
        na == Loc("m", <<"$defs", "n", "additionalItems">>)
        m == Loc("m", <<"$defs", "m">>)
        mi == Loc("m", <<"$defs", "m", "items">>)
        D19(raw) == [raw EXCEPT !.draft_version = 2019]
    IN  [entry |-> r,
         nodes |-> <<
            Node(r, D19([Raw(r) EXCEPT !.items = <<ItemsSchemaRefs(<<i0>>)>>,
                                       !.additional_items = <<AdditionalBool(FALSE)>>,
                                       !.all_of = <<n, m>>])),
            Node(i0, D19([Raw(r) EXCEPT !.types = <<"String">>])),
            Node(n, D19([Raw(r) EXCEPT !.items = <<ItemsSchemaRefs(<<n0>>)>>,
                                       !.additional_items = <<AdditionalSchemaRef(na)>>])),
            Node(n0, D19([Raw(r) EXCEPT !.types = <<"String">>])),
            Node(na, D19([Raw(r) EXCEPT !.types = <<"Number">>])),
            Node(m, D19([Raw(r) EXCEPT !.items = <<ItemsSchemaRef(mi)>>,
                                       !.additional_items = <<AdditionalBool(FALSE)>>])),
            Node(mi, D19([Raw(r) EXCEPT !.types = <<"String">>]))>>]

\* draft 2020-12: {"prefixItems": [{"type": "string"}], "items": false}
DocPrefix ==
    LET r == Loc("n", <<>>)
        p0 == Loc("n", <<"prefixItems", "0">>)
        it == Loc("n", <<"items">>)
    IN  [entry |-> r,
         nodes |-> <<
            Node(r, [Raw(r) EXCEPT !.prefix_items = <<p0>>, !.items2020 = <<it>>]),
            Node(p0, [Raw(r) EXCEPT !.types = <<"String">>]),
            Node(it, [Raw(r) EXCEPT !.boolean = <<FALSE>>])>>]

\* {"contains": {"type": "string"}, "unevaluatedItems": false} on the draft
\* of version dv
DocContainsOn(url, dv) ==
    LET r == Loc(url, <<>>)
        c == Loc(url, <<"contains">>)
        u == Loc(url, <<"unevaluatedItems">>)
        D(raw) == [raw EXCEPT !.draft_version = dv]
    IN  [entry |-> r,
         nodes |-> <<
            Node(r, D([Raw(r) EXCEPT !.contains = <<c>>, !.unevaluated_items = <<u>>])),
            Node(c, D([Raw(r) EXCEPT !.types = <<"String">>])),
            Node(u, D([Raw(r) EXCEPT !.boolean = <<FALSE>>]))>>]
DocContains == DocContainsOn("c20", 2020)
DocContains19 == DocContainsOn("c19", 2019)

\* {"allOf": [{"not": {"properties": {"a": {"type": "string"}}}}],
\*  "unevaluatedProperties": false}
DocNot ==
    LET r == Loc("r", <<>>)
        a0 == Loc("r", <<"allOf", "0">>)
        nt == Loc("r", <<"allOf", "0", "not">>)
        na == Loc("r", <<"allOf", "0", "not", "properties", "a">>)
        up == Loc("r", <<"unevaluatedProperties">>)
    IN  [entry |-> r,
         nodes |-> <<
            Node(r, [Raw(r) EXCEPT !.all_of = <<a0>>, !.unevaluated_properties = <<up>>]),
            Node(a0, [Raw(r) EXCEPT !.not = <<nt>>]),
            Node(nt, [Raw(r) EXCEPT !.properties = <<Entry(A, na)>>]),
            Node(na, [Raw(r) EXCEPT !.types = <<"String">>]),
            Node(up, [Raw(r) EXCEPT !.boolean = <<FALSE>>])>>]

\* every graph over two nodes with at most one $ref edge and at most one
\* "properties": {"a": ...} edge per node
GraphLocs == <<Loc("g", <<>>), Loc("g", <<"$defs", "n">>)>>
GraphEdge(n) == IF n = 0 THEN <<>> ELSE <<GraphLocs[n]>>
GraphDoc(refs, props) ==
    [entry |-> GraphLocs[1],
     nodes |-> [n \in DOMAIN GraphLocs |->
        Node(GraphLocs[n],
             [Raw(GraphLocs[1]) EXCEPT
                !.ref_ = GraphEdge(refs[n]),
                !.properties = MapSeq(GraphEdge(props[n]), LAMBDA l : Entry(A, l))])]]
GraphDocs ==
    {GraphDoc(refs, props) :
        refs \in [DOMAIN GraphLocs -> {0} \cup DOMAIN GraphLocs],
        props \in [DOMAIN GraphLocs -> {0} \cup DOMAIN GraphLocs]}

\* $dynamicRef through two nested resources, d (outer) and l (inner), that
\* both declare the dynamic anchor "items"
Items == <<"items">>
DocDyn ==
    LET d == Loc("d", <<>>)
        foo == Loc("d", <<"$defs", "foo">>)
        l == Loc("l", <<>>)
        la == Loc("l", <<"properties", "a">>)
        lb == Loc("l", <<"properties", "b">>)
        li == Loc("l", <<"$defs", "items">>)
        lp == Loc("l", <<"$defs", "plain">>)
    IN  [entry |-> d,
         nodes |-> <<
            Node(d, [Raw(d) EXCEPT !.dynamic_anchors = <<Entry(Items, foo)>>,
                                   !.ref_ = <<<<"l">>>>]),
            Node(foo, [Raw(d) EXCEPT !.dynamic_anchor = <<Items>>,
                                     !.types = <<"String">>]),
            Node(l, [Raw(l) EXCEPT !.dynamic_anchors = <<Entry(Items, li)>>,
                                   !.properties = <<Entry(A, la), Entry(B, lb)>>]),
            Node(la, [Raw(l) EXCEPT !.dynamic_ref = <<li>>]),
            Node(lb, [Raw(l) EXCEPT !.dynamic_ref = <<lp>>]),
            Node(li, [Raw(l) EXCEPT !.dynamic_anchor = <<Items>>]),
            Node(lp, [Raw(l) EXCEPT !.types = <<"Object">>])>>]

\* a $dynamicRef into a resource x that is never on the scope chain
DocDynFar ==
    LET e == Loc("f", <<>>)
        ea == Loc("f", <<"properties", "a">>)
        x == Loc("x", <<>>)
        z == Loc("x", <<"$defs", "z">>)
    IN  [entry |-> e,
         nodes |-> <<
            Node(e, [Raw(e) EXCEPT !.properties = <<Entry(A, ea)>>]),
            Node(ea, [Raw(e) EXCEPT !.dynamic_ref = <<z>>]),
            Node(x, [Raw(x) EXCEPT !.dynamic_anchors = <<Entry(Items, z)>>]),
            Node(z, [Raw(x) EXCEPT !.dynamic_anchor = <<Items>>,
                                   !.types = <<"String">>])>>]

\* $recursiveRef: the strict resource u extends the tree resource t, both
\* with "$recursiveAnchor": true; the resource p has no recursive anchor
DocRec ==
    LET u == Loc("u", <<>>)
        t == Loc("t", <<>>)
        ta == Loc("t", <<"properties", "a">>)
        tx == Loc("t", <<"$defs", "x">>)
        p == Loc("p", <<>>)
        pa == Loc("p", <<"properties", "a">>)
    IN  [entry |-> u,
         nodes |-> <<
            Node(u, [Raw(u) EXCEPT !.recursive_anchor = TRUE,
                                   !.ref_ = <<t>>,
                                   !.all_of = <<p, tx>>,
                                   !.types = <<"Object", "Number">>]),
            Node(t, [Raw(t) EXCEPT !.recursive_anchor = TRUE,
                                   !.types = <<"Object">>,
                                   !.properties = <<Entry(A, ta)>>]),
            Node(ta, [Raw(t) EXCEPT !.recursive_ref = <<t>>]),
            Node(tx, [Raw(t) EXCEPT !.properties = <<Entry(B, ta)>>]),
            Node(p, [Raw(p) EXCEPT !.properties = <<Entry(A, pa)>>]),
            Node(pa, [Raw(p) EXCEPT !.recursive_ref = <<p>>])>>]

\* the resource o, without recursive anchor, refers to the subschema
\* t#/$defs/x of the recursive-anchored resource t
DocRecInner ==
    LET o == Loc("o", <<>>)
        t == Loc("t", <<>>)
        ta == Loc("t", <<"properties", "a">>)
        tx == Loc("t", <<"$defs", "x">>)
    IN  [entry |-> o,
         nodes |-> <<
            Node(o, [Raw(o) EXCEPT !.ref_ = <<tx>>]),
            Node(t, [Raw(t) EXCEPT !.recursive_anchor = TRUE,
                                   !.types = <<"Object">>,
                                   !.properties = <<Entry(A, ta)>>]),
            Node(ta, [Raw(t) EXCEPT !.recursive_ref = <<t>>]),
            Node(tx, [Raw(t) EXCEPT !.properties = <<Entry(B, ta)>>])>>]

Docs ==
    {DocBool, DocEx4, DocAddl, DocAllOf, DocDyn, DocDynFar, DocRec, DocRecInner,
     DocUneval, DocAnyOf, DocOneOf, DocOneOf4, DocIf, DocIfPart, DocPattern,
     DocDep, DocTuple, DocPrefix, DocContains, DocContains19, DocNot}
    \cup GraphDocs

(***************************************************************************)
(* Errors, Uneval, Scope                                                   *)
(***************************************************************************)
\* an ErrorKind with its payload
Kind(k) == [kind |-> k, got |-> <<>>, want |-> <<>>, url |-> <<>>]
KindGot(k, got) == [Kind(k) EXCEPT !.got = got]
KindGotWant(k, got, want) == [Kind(k) EXCEPT !.got = got, !.want = want]
KindWant(k, want) == [Kind(k) EXCEPT !.want = want]
KindUrl(k, url) == [Kind(k) EXCEPT !.url = url]

\* struct ValidationError
ValidationError(kwl, abs, iloc, kind, causes) ==
    [keyword_location |-> kwl, absolute_keyword_location |-> abs,
     instance_location |-> iloc, kind |-> kind.kind, got |-> kind.got,
     want |-> kind.want, url |-> kind.url, causes |-> causes]

NoErr == ValidationError(<<>>, <<>>, <<>>, Kind("None"), <<>>)

\* Uneval::from
Uneval_from(v) ==
    [props |-> IF v.type = "Object" THEN ObjKeys(v) ELSE {},
     items |-> IF v.type = "Array" THEN 0..(Len(v.arr) - 1) ELSE {}]

\* a merge that keeps what either result left unevaluated
merge_union(self, other) ==
    [props |-> self.props \cup other.props,
     items |-> self.items \cup other.items]

\* Uneval::merge
merge(self, other) ==
    [props |-> {p \in self.props : p \in other.props},
     items |-> {i \in self.items : i \in other.items}]

\* a running Schema::validate call: its Scope (sch, kw_path, vid; the parent
\* is the frame below), its arguments v and vloc, and its locals
Frame(sch, kw_path, vid, v, vloc) ==
    [sch |-> sch, kw_path |-> kw_path, vid |-> vid, v |-> v, vloc |-> vloc,
     pc |-> "cycle", errors |-> <<>>, props |-> {}, items |-> {},
     todo |-> {}, i |-> 0, wait |-> FALSE,
     j |-> 0, branch_errors |-> <<>>, matched |-> <<>>, branch |-> ""]

\* Scope::kw_loc
RECURSIVE kw_loc_walk(_, _, _)
kw_loc_walk(stk, j, loc) ==
    LET loc1 == IF loc # <<>> THEN <<"/">> \o loc ELSE loc
        loc2 == stk[j].kw_path \o loc1
    IN  IF j > 1 THEN kw_loc_walk(stk, j - 1, loc2) ELSE loc2
kw_loc(stk, kw_path) == kw_loc_walk(stk, Len(stk), kw_path)

\* has_cycle that looks at the parent scope only
has_cycle_parent_only(stk) ==
    /\ Len(stk) > 1
    /\ stk[Len(stk) - 1].vid = stk[Len(stk)].vid
    /\ stk[Len(stk) - 1].sch = stk[Len(stk)].sch

\* has_cycle that does not stop at a scope with another vid
has_cycle_any_vid(stk) ==
    \E j \in 1..(Len(stk) - 1) : stk[j].sch = stk[Len(stk)].sch

\* Scope::has_cycle of the top scope of stk
RECURSIVE has_cycle_walk(_, _)
has_cycle_walk(stk, j) ==
    IF j = 0 THEN FALSE
    ELSE IF stk[j].vid # stk[Len(stk)].vid THEN FALSE
    ELSE IF stk[j].sch = stk[Len(stk)].sch THEN TRUE
    ELSE has_cycle_walk(stk, j - 1)
has_cycle(stk) == has_cycle_walk(stk, Len(stk) - 1)

\* the error closure of Schema::validate, for the top frame of stk
error(stk, kw_path, kind) ==
    LET self == get(stk[Len(stk)].sch)
    IN  ValidationError(
            kw_loc(stk, kw_path),
            IF kw_path = <<>> THEN self.loc ELSE self.loc \o <<"/">> \o kw_path,
            stk[Len(stk)].vloc, kind, <<>>)

\* pointer-token escaping: '~' becomes "~0" and '/' becomes "~1"
RECURSIVE escape(_)
escape(s) ==
    IF s = <<>> THEN <<>>
    ELSE (IF Head(s) = "~" THEN <<"~", "0">>
          ELSE IF Head(s) = "/" THEN <<"~", "1">>
          ELSE <<Head(s)>>) \o escape(Tail(s))

\* usize::to_string
Digits == <<"0", "1", "2", "3", "4", "5", "6", "7", "8", "9">>
RECURSIVE to_string(_)
to_string(n) ==
    IF n < Len(Digits) THEN <<Digits[n + 1]>>
    ELSE to_string(n \div Len(Digits)) \o <<Digits[(n % Len(Digits)) + 1]>>

\* Type::of
Type_of(v) == v.type

\* the order in which Schema::validate visits its keywords
KwOrder ==
    <<"cycle", "boolean", "type", "required", "dependentSchemas", "properties",
      "patternProperties", "additionalProperties", "items", "additionalItems",
      "prefixItems", "items2020", "contains", "minimum", "$ref", "$recursiveRef",
      "$dynamicRef", "not", "allOf", "anyOf", "oneOf", "if", "unevaluatedProperties",
      "unevaluatedItems", "result">>
NextPc(pc) == KwOrder[(CHOOSE n \in DOMAIN KwOrder : KwOrder[n] = pc) + 1]

\* what the loop of keyword pc iterates over, as positions in the HashMap or
\* in the object
Todo(pc, f) ==
    IF f.v.type = "Object"
    THEN IF pc = "properties"
         THEN {n \in DOMAIN get(f.sch).properties :
                  get(f.sch).properties[n].k \in ObjKeys(f.v)}
         ELSE IF pc = "dependentSchemas"
         THEN {n \in DOMAIN get(f.sch).dependent_schemas :
                  get(f.sch).dependent_schemas[n].k \in ObjKeys(f.v)}
         ELSE IF pc = "additionalProperties"
                 /\ get(f.sch).additional_properties # <<>>
                 /\ get(f.sch).additional_properties[1].tag = "SchemaRef"
         THEN {n \in DOMAIN f.v.obj : f.v.obj[n].k \in f.props}
         ELSE IF pc = "unevaluatedProperties"
                 /\ get(f.sch).unevaluated_properties # <<>>
         THEN {n \in DOMAIN f.v.obj : f.v.obj[n].k \in f.props}
         ELSE {}
    ELSE IF f.v.type = "Array"
    THEN IF pc = "additionalItems"
            /\ get(f.sch).additional_items # <<>>
            /\ get(f.sch).additional_items[1].tag = "SchemaRef"
         THEN f.items
         ELSE IF pc = "items2020" /\ get(f.sch).items2020 # <<>>
         THEN f.items
         ELSE IF pc = "unevaluatedItems" /\ get(f.sch).unevaluated_items # <<>>
         THEN f.items
         ELSE {}
    ELSE {}

\* the frame f moves on to its next keyword
Advance(f) ==
    [f EXCEPT !.pc = NextPc(f.pc), !.todo = Todo(NextPc(f.pc), f),
              !.i = 0, !.wait = FALSE,
              !.j = 0, !.branch_errors = <<>>, !.matched = <<>>, !.branch = ""]

(***************************************************************************)
(* URL loader (loader.rs).  A url is the sequence <<scheme, "://", host,   *)
(* path>>.                                                                 *)
(***************************************************************************)
\* str::strip_prefix
strip_prefix(s, prefix) ==
    IF Len(s) >= Len(prefix) /\ SubSeq(s, 1, Len(prefix)) = prefix
    THEN <<SubSeq(s, Len(prefix) + 1, Len(s))>>
    ELSE <<>>

\* Option::or_else
or_else(a, b) == IF a # <<>> THEN a ELSE b

\* Url::scheme
scheme(url) == url[1]

\* the paths of the add! lines, without "metaschemas/"
MetaPaths ==
    {<<"draft-04/schema">>, <<"draft-06/schema">>, <<"draft-07/schema">>,
     <<"draft/2019-09/schema">>, <<"draft/2019-09/meta/core">>,
     <<"draft/2019-09/meta/applicator">>, <<"draft/2019-09/meta/validation">>,
     <<"draft/2019-09/meta/meta-data">>, <<"draft/2019-09/meta/format">>,
     <<"draft/2019-09/meta/content">>, <<"draft/2020-12/schema">>,
     <<"draft/2020-12/meta/core">>, <<"draft/2020-12/meta/applicator">>,
     <<"draft/2020-12/meta/unevaluated">>, <<"draft/2020-12/meta/validation">>,
     <<"draft/2020-12/meta/meta-data">>, <<"draft/2020-12/meta/content">>,
     <<"draft/2020-12/meta/format-annotation">>,
     <<"draft/2020-12/meta/format-assertion">>}

\* include_str! of an embedded meta-schema: the tokens of {"$id": path}
MetaText(path) == <<"{", "$id", ":">> \o path \o <<"}">>

\* static STD_METAFILES
STD_METAFILES == [path \in MetaPaths |-> MetaText(path)]

\* Result<Value, CompileError> of load
LoadOk(v) == [ok |-> TRUE, v |-> v, err |-> "", url |-> <<>>, src |-> ""]
LoadErr(err, url, src) == [ok |-> FALSE, v |-> JNull, err |-> err, url |-> url, src |-> src]

\* serde_json::from_str of a text of the form {"key": string}
from_str(text) ==
    IF Len(text) = 5 /\ text[1] = "{" /\ text[3] = ":" /\ text[5] = "}"
    THEN LoadOk(JObj(<<Member(text[2], JStr(<<text[4]>>))>>))
    ELSE LoadErr("", <<>>, "syntax")

\* the documents behind the loaders: what a file or a server holds at url
Served(url) == JObj(<<Member("$id", JStr(url))>>)

\* UrlLoader::load of the registered loaders: FileLoader finds the file or
\* not, a client's loader serves every url or fails on every url
UrlLoader_load(l, url) ==
    IF l = "FileLoader" THEN {LoadOk(Served(url)), LoadErr("", <<>>, "io")}
    ELSE IF l = "Serving" THEN {LoadOk(Served(url))}
    ELSE {LoadErr("", <<>>, "refused")}

\* HashMap::insert and HashMap::remove
HashMap_insert(m, k, v) == [x \in DOMAIN m \cup {k} |-> IF x = k THEN v ELSE m[x]]
HashMap_remove(m, k) == [x \in DOMAIN m \ {k} |-> m[x]]

\* DefaultUrlLoader::new (not on wasm32)
DefaultUrlLoader_new ==
    [resources |-> [u \in {} |-> JNull],
     loaders |-> [s \in {"file"} |-> "FileLoader"]]

NoLoad == [set |-> FALSE, arg |-> <<>>, res |-> LoadOk(JNull)]

\* the urls, documents, schemes and loaders of the clients
Urls ==
    {<<"http", "://", "json-schema.org/", "draft-07/schema">>,
     <<"https", "://", "json-schema.org/", "draft/2020-12/schema">>,
     <<"http", "://", "json-schema.org/", "other">>,
     <<"file", "://", "/", "a.json">>,
     <<"mem", "://", "x/", "s">>}
Preloads == {JObj(<<>>), JStr(<<"x">>)}
Schemes == {"http", "mem", "file"}
ClientLoaders == {"Serving", "Failing"}

\* DefaultUrlLoader::add_resource
AddResource(url, json) ==
    /\ Cardinality(DOMAIN loader.resources \cup {url}) <= MaxResources
    /\ loader' = [loader EXCEPT !.resources = HashMap_insert(@, url, json)]
    /\ UNCHANGED <<doc, list, map, queue, issued, phase, call, stack, ret, result,
                   loaded, root, resolved, prev, parked, output>>

\* DefaultUrlLoader::register
Register(sch, l) ==
    /\ loader' = [loader EXCEPT !.loaders = HashMap_insert(@, sch, l)]
    /\ UNCHANGED <<doc, list, map, queue, issued, phase, call, stack, ret, result,
                   loaded, root, resolved, prev, parked, output>>

\* load that looks at the preloaded resources before the meta-schema table
load_preloaded_first(l, url) ==
    LET meta == or_else(strip_prefix(url, <<"http", "://", "json-schema.org/">>),
                        strip_prefix(url, <<"https", "://", "json-schema.org/">>))
    IN  IF url \in DOMAIN l.resources
        THEN {[loader |-> [l EXCEPT !.resources = HashMap_remove(@, url)],
               res |-> LoadOk(l.resources[url])]}
        ELSE IF meta # <<>> /\ meta[1] \in DOMAIN STD_METAFILES
        THEN {[loader |-> l, res |-> from_str(STD_METAFILES[meta[1]])]}
        ELSE IF scheme(url) \in DOMAIN l.loaders
        THEN {[loader |-> l,
               res |-> IF r.ok THEN r ELSE LoadErr("LoadUrlError", url, r.src)] :
                  r \in UrlLoader_load(l.loaders[scheme(url)], url)}
        ELSE {[loader |-> l, res |-> LoadErr("UnsupportedUrlScheme", url, "")]}

\* load that leaves the preloaded resource it returns in the table
load_keeps_preloaded(l, url) ==
    LET meta == or_else(strip_prefix(url, <<"http", "://", "json-schema.org/">>),
                        strip_prefix(url, <<"https", "://", "json-schema.org/">>))
    IN  IF meta # <<>> /\ meta[1] \in DOMAIN STD_METAFILES
        THEN {[loader |-> l,
               res |-> LET r == from_str(STD_METAFILES[meta[1]])
                       IN  IF r.ok THEN r ELSE LoadErr("LoadUrlError", url, r.src)]}
        ELSE IF url \in DOMAIN l.resources
        THEN {[loader |-> l, res |-> LoadOk(l.resources[url])]}
        ELSE IF scheme(url) \in DOMAIN l.loaders
        THEN {[loader |-> l,
               res |-> IF r.ok THEN r ELSE LoadErr("LoadUrlError", url, r.src)] :
                  r \in UrlLoader_load(l.loaders[scheme(url)], url)}
        ELSE {[loader |-> l, res |-> LoadErr("UnsupportedUrlScheme", url, "")]}

\* DefaultUrlLoader::load on the loader l: the loaders it can leave and the
\* results it can return
load(l, url) ==
    LET meta == or_else(strip_prefix(url, <<"http", "://", "json-schema.org/">>),
                        strip_prefix(url, <<"https", "://", "json-schema.org/">>))
    IN  IF meta # <<>> /\ meta[1] \in DOMAIN STD_METAFILES
        THEN {[loader |-> l,
               res |-> LET r == from_str(STD_METAFILES[meta[1]])
                       IN  IF r.ok THEN r ELSE LoadErr("LoadUrlError", url, r.src)]}
        ELSE IF url \in DOMAIN l.resources
        THEN {[loader |-> [l EXCEPT !.resources = HashMap_remove(@, url)],
               res |-> LoadOk(l.resources[url])]}
        ELSE IF scheme(url) \in DOMAIN l.loaders
        THEN {[loader |-> l,
               res |-> IF r.ok THEN r ELSE LoadErr("LoadUrlError", url, r.src)] :
                  r \in UrlLoader_load(l.loaders[scheme(url)], url)}
        ELSE {[loader |-> l, res |-> LoadErr("UnsupportedUrlScheme", url, "")]}

\* a call of DefaultUrlLoader::load
Load(url) ==
    /\ ~loaded.set
    /\ \E out \in load(loader, url) :
          /\ loader' = out.loader
          /\ loaded' = [set |-> TRUE, arg |-> url, res |-> out.res]
    /\ UNCHANGED <<doc, list, map, queue, issued, phase, call, stack, ret, result,
                   root, resolved, prev, parked, output>>

\* the caller takes the result
LoadReturn ==
    /\ loaded.set
    /\ loaded' = NoLoad
    /\ UNCHANGED <<doc, list, map, queue, issued, phase, call, stack, ret, result,
                   loader, root, resolved, prev, parked, output>>

LoaderNext ==
    \/ \E url \in Urls, json \in Preloads : AddResource(url, json)
    \/ \E sch \in Schemes, l \in ClientLoaders : Register(sch, l)
    \/ \E url \in Urls : Load(url)
    \/ LoadReturn

(***************************************************************************)
(* Root (root.rs).  A pointer is a sequence of "/" and tokens, a location  *)
(* is a url followed, if it has a fragment, by "#" and the fragment.       *)
(***************************************************************************)
\* util::split: the url and the fragment after the first '#'
split(loc) ==
    IF \E n \in DOMAIN loc : loc[n] = "#"
    THEN LET i == CHOOSE n \in DOMAIN loc :
                     loc[n] = "#" /\ \A k \in 1..(n - 1) : loc[k] # "#"
         IN  [url |-> SubSeq(loc, 1, i - 1), frag |-> SubSeq(loc, i + 1, Len(loc))]
    ELSE [url |-> loc, frag |-> <<>>]

\* util::percent_encode: a space and a '%' are written as escapes
percent_encode(s) ==
    [n \in DOMAIN s |-> IF s[n] = " " THEN "%20"
                        ELSE IF s[n] = "%" THEN "%25"
                        ELSE s[n]]

\* percent-decoding: the escapes of a space, of '%' and of 'n'; %FF is not
\* the encoding of a character
percent_decode(s) ==
    [n \in DOMAIN s |-> IF s[n] = "%20" THEN " "
                        ELSE IF s[n] = "%25" THEN "%"
                        ELSE IF s[n] = "%6E" THEN "n"
                        ELSE s[n]]

\* Fragment::to_anchor: None for a JSON pointer, the decoded name for an
\* anchor, an error for a name that does not decode
to_anchor(frag) ==
    IF frag = <<>> \/ frag[1] = "/" THEN [ok |-> TRUE, anchor |-> <<>>]
    ELSE IF \E n \in DOMAIN frag : frag[n] = "%FF" THEN [ok |-> FALSE, anchor |-> <<>>]
    ELSE [ok |-> TRUE, anchor |-> <<percent_decode(frag)>>]

\* struct Resource
Resource(ptr, id, anchors) == [ptr |-> ptr, id |-> id, anchors |-> anchors]

\* Result<_, CompileError> of resolve and check_duplicate_id
RootOk(s) ==
    [ok |-> TRUE, s |-> s, err |-> "", url |-> <<>>, reference |-> <<>>,
     id |-> <<>>, ptr1 |-> <<>>, ptr2 |-> <<>>]
AnchorNotFound(url, reference) ==
    [RootOk(<<>>) EXCEPT !.ok = FALSE, !.err = "AnchorNotFound", !.url = url,
                         !.reference = reference]
ParseUrlError(url) ==
    [RootOk(<<>>) EXCEPT !.ok = FALSE, !.err = "ParseUrlError", !.url = url]
Bug == [RootOk(<<>>) EXCEPT !.ok = FALSE, !.err = "Bug"]
DuplicateId(url, id, ptr1, ptr2) ==
    [RootOk(<<>>) EXCEPT !.ok = FALSE, !.err = "DuplicateId", !.url = url,
                         !.id = id, !.ptr1 = ptr1, !.ptr2 = ptr2]

\* resolve that looks an anchor up in every resource of the root
resolve_in_any_anchor(r, loc, frag, res_ptr, res) ==
    LET anchor == to_anchor(frag)
        having == {p \in DOMAIN r.resources :
                     anchor.anchor # <<>>
                     /\ anchor.anchor[1] \in DOMAIN r.resources[p].anchors}
    IN  IF ~anchor.ok THEN ParseUrlError(loc)
        ELSE IF anchor.anchor # <<>>
        THEN IF having # {}
             THEN LET p == CHOOSE p \in having : TRUE
                  IN  RootOk(r.url \o <<"#">>
                        \o percent_encode(r.resources[p].anchors[anchor.anchor[1]]))
             ELSE AnchorNotFound(r.url, loc)
        ELSE RootOk(r.url \o <<"#">> \o percent_encode(res_ptr) \o frag)

\* the rest of resolve once the resource res at res_ptr is matched
resolve_in(r, loc, frag, res_ptr, res) ==
    LET anchor == to_anchor(frag)
    IN  IF ~anchor.ok THEN ParseUrlError(loc)
        ELSE IF anchor.anchor # <<>>
        THEN IF anchor.anchor[1] \in DOMAIN res.anchors
             THEN RootOk(r.url \o <<"#">> \o percent_encode(res.anchors[anchor.anchor[1]]))
             ELSE AnchorNotFound(r.url, loc)
        ELSE RootOk(r.url \o <<"#">> \o percent_encode(res_ptr) \o frag)

\* Root::resolve: the results it can return (find takes any resource whose
\* id is the url)
resolve(r, loc) ==
    LET url == split(loc).url
        frag == split(loc).frag
    IN  IF url = r.url
        THEN IF <<>> \in DOMAIN r.resources
             THEN {resolve_in(r, loc, frag, <<>>, r.resources[<<>>])}
             ELSE {Bug}
        ELSE IF \E ptr \in DOMAIN r.resources : r.resources[ptr].id = url
        THEN {resolve_in(r, loc, frag, ptr, r.resources[ptr]) :
                 ptr \in {p \in DOMAIN r.resources : r.resources[p].id = url}}
        ELSE {RootOk(loc)}

\* the roots: the root resource at "" and up to two more resources, each
\* with an id and anchors
RootUrl == <<"r">>
Ids == {RootUrl, <<"i">>, <<"j">>}
Ptrs == {<<"/", "a">>, <<"/", " ">>}
AnchorMaps ==
    {[n \in {} |-> <<>>],
     [n \in {<<"n">>} |-> <<"/", "a", "/", "x">>],
     [n \in {<<"n">>, <<"m">>} |-> IF n = <<"n">> THEN <<"/", " ", "/", "%">>
                                   ELSE <<"/", "a">>]}
Roots ==
    UNION {{[url |-> RootUrl,
             resources |-> [p \in ptrs \cup {<<>>} |->
                              Resource(p, f[p].id, f[p].anchors)]] :
               f \in [ptrs \cup {<<>>} -> [id : Ids, anchors : AnchorMaps]]} :
           ptrs \in SUBSET Ptrs}

\* a root with its root resource alone
Root0 ==
    [url |-> RootUrl,
     resources |-> [p \in {<<>>} |-> Resource(p, RootUrl, [n \in {} |-> <<>>])]]

NoResolved == [set |-> FALSE, op |-> "", arg |-> <<>>, res |-> RootOk(<<>>)]

\* the locations resolve is called with
Frags == {<<>>, <<"/", "x">>, <<"n">>, <<"%6E">>, <<"m">>, <<"%FF">>}
Locs ==
    {url \o <<"#">> \o frag : url \in Ids \cup {<<"e">>}, frag \in Frags}
        \cup Ids \cup {<<"e">>}

(***************************************************************************)
(* Results                                                                 *)
(***************************************************************************)
\* the Result<Uneval, ValidationError> of the call of frame f
Ret(ok, err, uneval, f) ==
    [set |-> TRUE, ok |-> ok, err |-> err, props |-> uneval.props,
     items |-> uneval.items, sch |-> f.sch, kw_path |-> f.kw_path,
     vid |-> f.vid, pc |-> f.pc, errors |-> f.errors]
NoRet ==
    [Ret(TRUE, NoErr, Uneval_from(JNull), Frame(0, <<>>, 0, JNull, <<>>))
        EXCEPT !.set = FALSE]
NoResult == [set |-> FALSE, ok |-> TRUE, err |-> NoErr]
NoPrev == [set |-> FALSE, call |-> <<>>, result |-> NoResult]

\* a thread that has not called validate yet
NoParked ==
    [phase |-> "ready", call |-> <<>>, stack |-> <<>>, ret |-> NoRet,
     result |-> NoResult]

(***************************************************************************)
(* Output (output.rs)                                                      *)
(***************************************************************************)
\* enum OutputError
Leaf(err) ==
    [tag |-> "Leaf",
     kind |-> [kind |-> err.kind, got |-> err.got, want |-> err.want, url |-> err.url],
     units |-> <<>>]
Branch(v) == [tag |-> "Branch", kind |-> Kind("None"), units |-> v]

\* struct OutputUnit of the error err; absolute_keyword_location is an Option
OutputUnit(err, abs, oerr) ==
    [valid |-> FALSE, keyword_location |-> err.keyword_location,
     absolute_keyword_location |-> abs,
     instance_location |-> err.instance_location, error |-> oerr]

\* fn flatten of basic_output: the units pushed on tgt for err and its
\* causes; flatten_causes is its loop over err.causes
RECURSIVE flatten(_, _, _), flatten_causes(_, _, _)
flatten(err, in_ref0, tgt) ==
    LET in_ref == in_ref0 \/ err.kind = "Reference"
        absolute_keyword_location ==
            IF in_ref THEN <<err.absolute_keyword_location>> ELSE <<>>
    IN  flatten_causes(err.causes, in_ref,
                       Append(tgt, OutputUnit(err, absolute_keyword_location, Leaf(err))))
flatten_causes(causes, in_ref, tgt) ==
    IF causes = <<>> THEN tgt
    ELSE flatten_causes(Tail(causes), in_ref, flatten(Head(causes), in_ref, tgt))

\* ValidationError::basic_output
basic_output(e) ==
    OutputUnit(e, <<>>,
               IF e.causes = <<>> THEN Leaf(e)
               ELSE Branch(flatten_causes(e.causes, FALSE, <<>>)))

NoOutput == [set |-> FALSE, arg |-> NoErr, unit |-> basic_output(NoErr)]

Init ==
    /\ doc \in Docs
    /\ list = <<>>
    /\ map = [l \in {} |-> 0]
    /\ queue = <<>>
    /\ issued = {}
    /\ phase = "start"
    /\ call = <<>>
    /\ stack = <<>>
    /\ ret = NoRet
    /\ result = NoResult
    /\ loader = DefaultUrlLoader_new
    /\ loaded = NoLoad
    /\ root = Root0
    /\ resolved = NoResolved
    /\ prev = NoPrev
    /\ parked = NoParked
    /\ output = NoOutput

\* compile(loc): the entry location is enqueued
CompileStart ==
    /\ phase = "start"
    /\ LET e == enqueue(queue, doc.entry)
       IN  /\ queue' = e.queue
           /\ issued' = issued \cup {<<e.loc, e.index, Len(list)>>}
    /\ phase' = "compile"
    /\ UNCHANGED <<port, doc, list, map, call, stack, ret, result>>

\* one round of the compile loop
CompileOne ==
    /\ phase = "compile"
    /\ queue # <<>>
    /\ LET loc == Head(queue)
           raw == DocGet(doc, loc)
           r == EnqueueAll(queue, RefLocs(raw))
       IN  \* a HashMap of the node is iterated in one order as long as the
           \* pool lives: the order of its sequence in the pool
           /\ \E po \in Orders(DOMAIN raw.properties),
                 do \in Orders(DOMAIN raw.dependent_schemas) :
                 LET hashed == [raw EXCEPT
                                  !.properties = [n \in DOMAIN po |-> raw.properties[po[n]]],
                                  !.dependent_schemas =
                                      [n \in DOMAIN do |-> raw.dependent_schemas[do[n]]]]
                     sch == Build(hashed, loc, Len(list), RefLocs(raw), r.idxs)
                     ins == insert(loc, sch)
                 IN  /\ list' = ins.list
                     /\ map' = ins.map
           /\ queue' = Tail(r.queue)
           /\ issued' = issued \cup {<<r.locs[n], r.idxs[n], Len(list)>> : n \in DOMAIN r.idxs}
           /\ phase' = IF Tail(r.queue) = <<>> THEN "ready" ELSE "compile"
    /\ UNCHANGED <<port, doc, call, stack, ret, result>>

(***************************************************************************)
(* Schemas::validate and Schema::validate                                  *)
(***************************************************************************)
top == stack[Len(stack)]
self == get(top.sch)
At(pc) == phase = "validating" /\ stack # <<>> /\ top.pc = pc
SetTop(f) == [stack EXCEPT ![Len(stack)] = f]
Pop == SubSeq(stack, 1, Len(stack) - 1)

\* the top frame goes on with its locals changed to f
Continue(f) ==
    /\ stack' = SetTop(f)
    /\ UNCHANGED <<port, doc, list, map, queue, issued, phase, call, ret, result>>

\* the top frame returns r to its caller
Return(r) ==
    /\ stack' = Pop
    /\ ret' = r
    /\ UNCHANGED <<port, doc, list, map, queue, issued, phase, call, result>>

\* the top frame, with its locals changed to f, calls schemas.get(sch).validate
\* for the scope child; schemas.get panics on an index out of range
Invoke(f, child) ==
    /\ Len(stack) < MaxStack
    /\ IF contains(child.sch)
       THEN /\ stack' = Append(SetTop([f EXCEPT !.wait = TRUE]), child)
            /\ ret' = NoRet
            /\ phase' = phase
       ELSE /\ phase' = "panic"
            /\ UNCHANGED <<stack, ret>>
    /\ UNCHANGED <<port, doc, list, map, queue, issued, call, result>>

\* schemas.get(index) with an index out of range
Panic ==
    /\ phase' = "panic"
    /\ UNCHANGED <<port, doc, list, map, queue, issued, call, stack, ret, result>>

\* the validate closure with the location of the child relative to its parent
validate_relative_vloc(f, sch, kw_path, v, vpath) ==
    Invoke(f, Frame(sch, kw_path, top.vid + 1, v, <<"/">> \o vpath))

\* the validate closure with the vid of its own scope
validate_keeps_vid(f, sch, kw_path, v, vpath) ==
    Invoke(f, Frame(sch, kw_path, top.vid, v, top.vloc \o <<"/">> \o vpath))

\* the validate closure: sch applied to a child value of v
validate(f, sch, kw_path, v, vpath) ==
    Invoke(f, Frame(sch, kw_path, top.vid + 1, v, top.vloc \o <<"/">> \o vpath))

\* the validate_self closure: sch applied to v itself
validate_self(f, sch, kw_path) ==
    Invoke(f, Frame(sch, kw_path, top.vid, top.v, top.vloc))

\* add_err! of the result of the validate closure
after_validate(f, r) ==
    [f EXCEPT !.errors = IF r.ok THEN @ ELSE Append(@, r.err), !.wait = FALSE]

\* validate_self that drops the Uneval of the call
after_validate_self_no_merge(f, r) ==
    [f EXCEPT !.errors = IF r.ok THEN @ ELSE Append(@, r.err), !.wait = FALSE]

\* the rest of validate_self once the call returned r, then add_err!
after_validate_self(f, r) ==
    LET u == IF r.ok THEN merge(f, r) ELSE f
    IN  [f EXCEPT !.props = u.props, !.items = u.items,
                  !.errors = IF r.ok THEN @ ELSE Append(@, r.err),
                  !.wait = FALSE]

\* validate_ref that keeps a Group as the single cause
after_validate_ref_group_kept(stk, f, r, kw) ==
    LET u == IF r.ok THEN merge(f, r) ELSE f
        err == error(stk, <<kw>>, KindUrl("Reference", get(r.sch).loc))
        ref_err == [err EXCEPT !.causes = <<r.err>>]
    IN  [f EXCEPT !.props = u.props, !.items = u.items,
                  !.errors = IF r.ok THEN @ ELSE Append(@, ref_err),
                  !.wait = FALSE]

\* the rest of validate_ref once validate_self returned r, then add_err!
after_validate_ref(stk, f, r, kw) ==
    LET u == IF r.ok THEN merge(f, r) ELSE f
        err == error(stk, <<kw>>, KindUrl("Reference", get(r.sch).loc))
        ref_err == [err EXCEPT !.causes = IF r.err.kind = "Group"
                                          THEN r.err.causes ELSE <<r.err>>]
    IN  [f EXCEPT !.props = u.props, !.items = u.items,
                  !.errors = IF r.ok THEN @ ELSE Append(@, ref_err),
                  !.wait = FALSE]

\* Schemas::validate(v, sch_index)
Validate(v, sch_index) ==
    /\ phase = "ready"
    /\ call' = <<[v |-> v, sch_index |-> sch_index]>>
    /\ IF contains(sch_index)
       THEN /\ phase' = "validating"
            /\ stack' = <<Frame(list[sch_index + 1].index, <<>>, 0, v, <<>>)>>
       ELSE /\ phase' = "panic"
            /\ stack' = stack
    /\ UNCHANGED <<port, doc, list, map, queue, issued, ret, result>>

\* Schemas::validate that hands the node's error on without the Schema wrapper
ValidateReturn_unwrapped ==
    /\ phase = "validating"
    /\ stack = <<>>
    /\ ret.set
    /\ result' = [set |-> TRUE, ok |-> ret.ok, err |-> ret.err]
    /\ phase' = "done"
    /\ UNCHANGED <<port, doc, list, map, queue, issued, call, stack, ret>>

\* the result of Schema::validate becomes the result of Schemas::validate
ValidateReturn ==
    /\ phase = "validating"
    /\ stack = <<>>
    /\ ret.set
    /\ LET sch == list[call[1].sch_index + 1]
       IN  result' =
             IF ret.ok THEN [set |-> TRUE, ok |-> TRUE, err |-> NoErr]
             ELSE [set |-> TRUE, ok |-> FALSE,
                   err |-> ValidationError(<<>>, sch.loc, <<>>,
                                           KindUrl("Schema", sch.loc), <<ret.err>>)]
    /\ phase' = "done"
    /\ UNCHANGED <<port, doc, list, map, queue, issued, call, stack, ret>>

\* if scope.has_cycle() { return Err(RefCycle) }; then Uneval::from(v)
CycleGuard ==
    /\ At("cycle")
    /\ IF has_cycle(stack)
       THEN Return(Ret(FALSE, error(stack, <<>>, Kind("RefCycle")), top, top))
       ELSE Continue([Advance(top) EXCEPT !.props = Uneval_from(top.v).props,
                                          !.items = Uneval_from(top.v).items])

\* boolean --
Boolean ==
    /\ At("boolean")
    /\ IF self.boolean # <<>>
       THEN IF ~self.boolean[1]
            THEN Return(Ret(FALSE, error(stack, <<>>, Kind("FalseSchema")), top, top))
            ELSE Return(Ret(TRUE, NoErr, top, top))
       ELSE Continue(Advance(top))

\* type --
TypeMatched(types, v) ==
    \E n \in DOMAIN types :
        IF types[n] = "Integer" /\ Type_of(v) = "Number"
        THEN v.num % 10 = 0
        ELSE types[n] = Type_of(v)

TypeKw ==
    /\ At("type")
    /\ Continue(
         IF self.types # <<>> /\ ~TypeMatched(self.types, top.v)
         THEN [Advance(top) EXCEPT !.errors =
                 Append(@, error(stack, <<"type">>,
                        KindGotWant("Type", <<Type_of(top.v)>>, self.types)))]
         ELSE Advance(top))

\* required --
Required ==
    /\ At("required")
    /\ LET missing == SelectSeq(self.required, LAMBDA q : q \notin ObjKeys(top.v))
       IN  Continue(
             IF top.v.type = "Object" /\ missing # <<>>
             THEN [Advance(top) EXCEPT !.errors =
                     Append(@, error(stack, <<"required">>, KindWant("Required", missing)))]
             ELSE Advance(top))

\* dependentSchemas --
DependentSchemas ==
    /\ At("dependentSchemas")
    /\ \/ /\ ~top.wait
          /\ top.todo # {}
          /\ LET n == CHOOSE n \in top.todo : \A k \in top.todo : n <= k
              IN  validate_self([top EXCEPT !.todo = @ \ {n}],
                                self.dependent_schemas[n].sch,
                                <<"dependentSchemas", "/">>
                                    \o escape(self.dependent_schemas[n].k))
       \/ /\ top.wait
          /\ Continue(after_validate_self(top, ret))
       \/ /\ ~top.wait
          /\ top.todo = {}
          /\ Continue(Advance(top))

\* properties --
Properties ==
    /\ At("properties")
    /\ \/ /\ ~top.wait
          /\ top.todo # {}
          /\ LET n == CHOOSE n \in top.todo : \A k \in top.todo : n <= k
                  pname == self.properties[n].k
                  psch == self.properties[n].sch
              IN  validate([top EXCEPT !.props = @ \ {pname}, !.todo = @ \ {n}],
                           psch, <<"properties", "/">> \o escape(pname),
                           ObjGet(top.v, pname), escape(pname))
       \/ /\ top.wait
          /\ Continue(after_validate(top, ret))
       \/ /\ ~top.wait
          /\ top.todo = {}
          /\ Continue(Advance(top))

\* Regex::is_match of a regex without metacharacters: s contains regex
is_match(regex, s) ==
    \E k \in 0..(Len(s) - Len(regex)) : SubSeq(s, k + 1, k + Len(regex)) = regex

\* patternProperties --
PatternProperties ==
    /\ At("patternProperties")
    /\ \/ /\ ~top.wait
          /\ top.v.type = "Object"
          /\ top.i < Len(self.pattern_properties)
          /\ top.j < Len(top.v.obj)
          /\ LET regex == self.pattern_properties[top.i + 1].k
                 psch == self.pattern_properties[top.i + 1].sch
                 pname == top.v.obj[top.j + 1].k
                 pvalue == top.v.obj[top.j + 1].v
             IN  IF is_match(regex, pname)
                 THEN validate([top EXCEPT !.props = @ \ {pname}, !.j = @ + 1],
                               psch, <<"patternProperties", "/">> \o escape(regex),
                               pvalue, escape(pname))
                 ELSE Continue([top EXCEPT !.j = @ + 1])
       \/ /\ ~top.wait
          /\ top.v.type = "Object"
          /\ top.i < Len(self.pattern_properties)
          /\ top.j = Len(top.v.obj)
          /\ Continue([top EXCEPT !.i = @ + 1, !.j = 0])
       \/ /\ top.wait
          /\ Continue(after_validate(top, ret))
       \/ /\ ~top.wait
          /\ top.v.type # "Object" \/ top.i = Len(self.pattern_properties)
          /\ Continue(Advance(top))

\* additionalProperties --
AdditionalProperties ==
    /\ At("additionalProperties")
    /\ \/ /\ ~top.wait
          /\ \E n \in top.todo :
                validate([top EXCEPT !.todo = @ \ {n}],
                         self.additional_properties[1].sch, <<"additionalProperties">>,
                         top.v.obj[n].v, escape(top.v.obj[n].k))
       \/ /\ top.wait
          /\ Continue(after_validate(top, ret))
       \/ /\ ~top.wait
          /\ top.todo = {}
          /\ IF top.v.type = "Object" /\ self.additional_properties # <<>>
             THEN LET additional == self.additional_properties[1]
                  IN  IF additional.tag = "Bool" /\ ~additional.b /\ top.props # {}
                      THEN \E got \in Orders(top.props) :
                              Continue([Advance(top) EXCEPT
                                  !.errors = Append(@, error(stack, <<"additionalProperties">>,
                                                KindGot("AdditionalProperties", got))),
                                  !.props = {}])
                      ELSE Continue([Advance(top) EXCEPT !.props = {}])
             ELSE Continue(Advance(top))

\* how many items the items keyword visits
ItemsLimit(sch, v) ==
    IF v.type # "Array" \/ sch.items = <<>> THEN 0
    ELSE IF sch.items[1].tag = "SchemaRef" THEN Len(v.arr)
    ELSE IF Len(sch.items[1].list) < Len(v.arr) THEN Len(sch.items[1].list)
    ELSE Len(v.arr)

\* items --
ItemsKw ==
    /\ At("items")
    /\ \/ /\ ~top.wait
          /\ top.i < ItemsLimit(self, top.v)
          /\ IF self.items[1].tag = "SchemaRef"
             THEN validate([top EXCEPT !.i = @ + 1], self.items[1].sch, <<"items">>,
                           top.v.arr[top.i + 1], to_string(top.i))
             ELSE validate([top EXCEPT !.i = @ + 1, !.items = @ \ {top.i}],
                           self.items[1].list[top.i + 1],
                           <<"items", "/">> \o to_string(top.i),
                           top.v.arr[top.i + 1], to_string(top.i))
       \/ /\ top.wait
          /\ Continue(after_validate(top, ret))
       \/ /\ ~top.wait
          /\ top.i = ItemsLimit(self, top.v)
          /\ Continue(Advance(
               IF top.v.type = "Array" /\ self.items # <<>>
                  /\ self.items[1].tag = "SchemaRef"
               THEN [top EXCEPT !.items = {}] ELSE top))

\* additionalItems --
AdditionalItems ==
    /\ At("additionalItems")
    /\ \/ /\ ~top.wait
          /\ \E index \in top.todo :
                validate([top EXCEPT !.todo = @ \ {index}],
                         self.additional_items[1].sch, <<"additionalItems">>,
                         top.v.arr[index + 1], to_string(index))
       \/ /\ top.wait
          /\ Continue(after_validate(top, ret))
       \/ /\ ~top.wait
          /\ top.todo = {}
          /\ IF top.v.type = "Array" /\ self.additional_items # <<>>
             THEN LET additional == self.additional_items[1]
                      f == IF additional.tag = "Bool" /\ ~additional.b /\ top.items # {}
                           THEN [top EXCEPT !.errors =
                                   Append(@, error(stack, <<"additionalItems">>,
                                       KindGot("AdditionalItems",
                                           <<Len(top.v.arr) - Cardinality(top.items)>>)))]
                           ELSE top
                  IN  Continue(Advance([f EXCEPT !.items = {}]))
             ELSE Continue(Advance(top))

\* how many items prefixItems visits
PrefixLimit(sch, v) ==
    IF v.type # "Array" THEN 0
    ELSE IF Len(sch.prefix_items) < Len(v.arr) THEN Len(sch.prefix_items)
    ELSE Len(v.arr)

\* prefixItems that leaves the indices it visits in uneval.items
PrefixItems_keeps_uneval ==
    /\ At("prefixItems")
    /\ \/ /\ ~top.wait
          /\ top.i < PrefixLimit(self, top.v)
          /\ validate([top EXCEPT !.i = @ + 1],
                      self.prefix_items[top.i + 1],
                      <<"prefixItems", "/">> \o to_string(top.i),
                      top.v.arr[top.i + 1], to_string(top.i))
       \/ /\ top.wait
          /\ Continue(after_validate(top, ret))
       \/ /\ ~top.wait
          /\ top.i = PrefixLimit(self, top.v)
          /\ Continue(Advance(top))

\* prefixItems --
PrefixItems ==
    /\ At("prefixItems")
    /\ \/ /\ ~top.wait
          /\ top.i < PrefixLimit(self, top.v)
          /\ validate([top EXCEPT !.i = @ + 1, !.items = @ \ {top.i}],
                      self.prefix_items[top.i + 1],
                      <<"prefixItems", "/">> \o to_string(top.i),
                      top.v.arr[top.i + 1], to_string(top.i))
       \/ /\ top.wait
          /\ Continue(after_validate(top, ret))
       \/ /\ ~top.wait
          /\ top.i = PrefixLimit(self, top.v)
          /\ Continue(Advance(top))

\* items2020 --
Items2020 ==
    /\ At("items2020")
    /\ \/ /\ ~top.wait
          /\ \E index \in top.todo :
                validate([top EXCEPT !.todo = @ \ {index}],
                         self.items2020[1], <<"items">>,
                         top.v.arr[index + 1], to_string(index))
       \/ /\ top.wait
          /\ Continue(after_validate(top, ret))
       \/ /\ ~top.wait
          /\ top.todo = {}
          /\ Continue(Advance(
               IF top.v.type = "Array" /\ self.items2020 # <<>>
               THEN [top EXCEPT !.items = {}] ELSE top))

\* contains that leaves uneval.items alone on every draft
Contains_keeps_uneval ==
    /\ At("contains")
    /\ LET on == top.v.type = "Array" /\ self.contains # <<>>
       IN  \/ /\ ~top.wait
              /\ on
              /\ top.i < Len(top.v.arr)
              /\ validate(top, self.contains[1], <<"contains">>,
                          top.v.arr[top.i + 1], to_string(top.i))
           \/ /\ top.wait
              /\ Continue([top EXCEPT
                    !.wait = FALSE,
                    !.i = @ + 1,
                    !.branch_errors = IF ret.ok THEN @ ELSE Append(@, ret.err),
                    !.matched = IF ret.ok THEN Append(@, top.i) ELSE @])
           \/ /\ ~top.wait
              /\ ~(on /\ top.i < Len(top.v.arr))
              /\ Continue(Advance(
                   IF on /\ top.matched = <<>>
                   THEN [top EXCEPT !.errors =
                           Append(@, [error(stack, <<"contains">>, Kind("Contains"))
                                        EXCEPT !.causes = top.branch_errors])]
                   ELSE top))

\* contains -- (minContains and maxContains are absent): every item is
\* validated in the order of the array; contains_matched is matched and
\* contains_errors is branch_errors
Contains ==
    /\ At("contains")
    /\ LET on == top.v.type = "Array" /\ self.contains # <<>>
       IN  \/ /\ ~top.wait
              /\ on
              /\ top.i < Len(top.v.arr)
              /\ validate(top, self.contains[1], <<"contains">>,
                          top.v.arr[top.i + 1], to_string(top.i))
           \/ /\ top.wait
              /\ Continue([top EXCEPT
                    !.wait = FALSE,
                    !.i = @ + 1,
                    !.branch_errors = IF ret.ok THEN @ ELSE Append(@, ret.err),
                    !.matched = IF ret.ok THEN Append(@, top.i) ELSE @,
                    !.items = IF ret.ok /\ self.draft_version >= 2020
                              THEN @ \ {top.i} ELSE @])
           \/ /\ ~top.wait
              /\ ~(on /\ top.i < Len(top.v.arr))
              /\ Continue(Advance(
                   IF on /\ top.matched = <<>>
                   THEN [top EXCEPT !.errors =
                           Append(@, [error(stack, <<"contains">>, Kind("Contains"))
                                        EXCEPT !.causes = top.branch_errors])]
                   ELSE top))

\* minimum --
Minimum ==
    /\ At("minimum")
    /\ Continue(
         IF top.v.type = "Number" /\ self.minimum # <<>> /\ top.v.num < self.minimum[1]
         THEN [Advance(top) EXCEPT !.errors =
                 Append(@, error(stack, <<"minimum">>,
                        KindGotWant("Minimum", <<top.v.num>>, self.minimum)))]
         ELSE Advance(top))

\* $ref --
Ref ==
    /\ At("$ref")
    /\ \/ /\ ~top.wait
          /\ self.ref_ # <<>>
          /\ validate_self(top, self.ref_[1], <<"$ref">>)
       \/ /\ top.wait
          /\ Continue(Advance(after_validate_ref(stack, top, ret, "$ref")))
       \/ /\ ~top.wait
          /\ self.ref_ = <<>>
          /\ Continue(Advance(top))

\* the scope walk of $recursiveRef, from scope j of stk outwards
RECURSIVE recursive_ref_walk(_, _, _)
recursive_ref_walk(stk, j, recursive_ref) ==
    LET scope_sch == get(stk[j].sch)
        base_sch == get(scope_sch.resource)
        r == IF base_sch.recursive_anchor THEN stk[j].sch ELSE recursive_ref
    IN  IF j > 1 THEN recursive_ref_walk(stk, j - 1, r) ELSE r

\* the schema $recursiveRef applies
recursive_ref_target(stk, recursive_ref) ==
    IF get(recursive_ref).recursive_anchor
    THEN recursive_ref_walk(stk, Len(stk), recursive_ref)
    ELSE recursive_ref

\* $recursiveRef --
RecursiveRef ==
    /\ At("$recursiveRef")
    /\ \/ /\ ~top.wait
          /\ self.recursive_ref # <<>>
          /\ IF contains(self.recursive_ref[1])
             THEN validate_self(top, recursive_ref_target(stack, self.recursive_ref[1]),
                                <<"$recursiveRef">>)
             ELSE Panic
       \/ /\ top.wait
          /\ Continue(Advance(after_validate_ref(stack, top, ret, "$recursiveRef")))
       \/ /\ ~top.wait
          /\ self.recursive_ref = <<>>
          /\ Continue(Advance(top))

\* HashMap::get on a sequence of entries, an Option
MapGet(m, k) ==
    IF \E n \in DOMAIN m : m[n].k = k
    THEN <<m[CHOOSE n \in DOMAIN m : m[n].k = k].sch>>
    ELSE <<>>

\* the scope walk of $dynamicRef that stops at the first scope declaring the name
RECURSIVE dynamic_ref_walk_innermost(_, _, _, _)
dynamic_ref_walk_innermost(stk, j, dynamic_anchor, dynamic_ref) ==
    LET scope_sch == get(stk[j].sch)
        base_sch == get(scope_sch.resource)
        sch == MapGet(base_sch.dynamic_anchors, dynamic_anchor)
    IN  IF sch # <<>> THEN sch[1]
        ELSE IF j > 1 THEN dynamic_ref_walk_innermost(stk, j - 1, dynamic_anchor, dynamic_ref)
        ELSE dynamic_ref

\* the scope walk of $dynamicRef, from scope j of stk outwards
RECURSIVE dynamic_ref_walk(_, _, _, _)
dynamic_ref_walk(stk, j, dynamic_anchor, dynamic_ref) ==
    LET scope_sch == get(stk[j].sch)
        base_sch == get(scope_sch.resource)
        sch == MapGet(base_sch.dynamic_anchors, dynamic_anchor)
        r == IF sch # <<>> THEN sch[1] ELSE dynamic_ref
    IN  IF j > 1 THEN dynamic_ref_walk(stk, j - 1, dynamic_anchor, r) ELSE r

\* the schema $dynamicRef applies
dynamic_ref_target(stk, dynamic_ref) ==
    IF get(dynamic_ref).dynamic_anchor # <<>>
    THEN dynamic_ref_walk(stk, Len(stk), get(dynamic_ref).dynamic_anchor[1], dynamic_ref)
    ELSE dynamic_ref

\* $dynamicRef --
DynamicRef ==
    /\ At("$dynamicRef")
    /\ \/ /\ ~top.wait
          /\ self.dynamic_ref # <<>>
          /\ IF contains(self.dynamic_ref[1])
             THEN validate_self(top, dynamic_ref_target(stack, self.dynamic_ref[1]),
                                <<"$dynamicRef">>)
             ELSE Panic
       \/ /\ top.wait
          /\ Continue(Advance(after_validate_ref(stack, top, ret, "$dynamicRef")))
       \/ /\ ~top.wait
          /\ self.dynamic_ref = <<>>
          /\ Continue(Advance(top))

\* not that hands the errors of the inner schema on
Not_add_err ==
    /\ At("not")
    /\ \/ /\ ~top.wait
          /\ self.not # <<>>
          /\ validate_self(top, self.not[1], <<"not">>)
       \/ /\ top.wait
          /\ Continue(Advance(
               [after_validate_self(top, ret) EXCEPT !.errors =
                  IF ret.ok THEN Append(top.errors, error(stack, <<"not">>, Kind("Not")))
                  ELSE Append(top.errors, ret.err)]))
       \/ /\ ~top.wait
          /\ self.not = <<>>
          /\ Continue(Advance(top))

\* not -- validate_self merges the Uneval of an inner schema that passed, and
\* then the Not error is recorded; the error of an inner schema that failed
\* is dropped
Not ==
    /\ At("not")
    /\ \/ /\ ~top.wait
          /\ self.not # <<>>
          /\ validate_self(top, self.not[1], <<"not">>)
       \/ /\ top.wait
          /\ Continue(Advance(
               [after_validate_self(top, ret) EXCEPT !.errors =
                  IF ret.ok THEN Append(top.errors, error(stack, <<"not">>, Kind("Not")))
                  ELSE top.errors]))
       \/ /\ ~top.wait
          /\ self.not = <<>>
          /\ Continue(Advance(top))

\* allOf --
AllOf ==
    /\ At("allOf")
    /\ \/ /\ ~top.wait
          /\ top.i < Len(self.all_of)
          /\ validate_self(top, self.all_of[top.i + 1], <<"allOf", "/">> \o to_string(top.i))
       \/ /\ top.wait
          /\ Continue([after_validate_self(top, ret) EXCEPT !.i = @ + 1])
       \/ /\ ~top.wait
          /\ top.i = Len(self.all_of)
          /\ Continue(Advance(top))

\* the rest of validate_self once the call returned r, the error being
\* pushed on the errors of the branches (anyof_errors, oneof_errors)
after_branch(f, r, i) ==
    LET u == IF r.ok THEN merge(f, r) ELSE f
    IN  [f EXCEPT !.props = u.props, !.items = u.items,
                  !.branch_errors = IF r.ok THEN @ ELSE Append(@, r.err),
                  !.matched = IF r.ok THEN Append(@, i) ELSE @,
                  !.i = @ + 1,
                  !.wait = FALSE]

\* anyOf that stops at the first subschema that passes
AnyOf_short_circuit ==
    /\ At("anyOf")
    /\ \/ /\ ~top.wait
          /\ top.i < Len(self.any_of)
          /\ top.matched = <<>>
          /\ validate_self(top, self.any_of[top.i + 1], <<"anyOf", "/">> \o to_string(top.i))
       \/ /\ top.wait
          /\ Continue(after_branch(top, ret, top.i))
       \/ /\ ~top.wait
          /\ top.i = Len(self.any_of) \/ top.matched # <<>>
          /\ Continue(Advance(
               IF self.any_of # <<>> /\ top.matched = <<>>
               THEN [top EXCEPT !.errors = @ \o top.branch_errors] ELSE top))

\* anyOf --
AnyOf ==
    /\ At("anyOf")
    /\ \/ /\ ~top.wait
          /\ top.i < Len(self.any_of)
          /\ validate_self(top, self.any_of[top.i + 1], <<"anyOf", "/">> \o to_string(top.i))
       \/ /\ top.wait
          /\ Continue(after_branch(top, ret, top.i))
       \/ /\ ~top.wait
          /\ top.i = Len(self.any_of)
          /\ Continue(Advance(
               IF self.any_of # <<>> /\ Len(top.branch_errors) = Len(self.any_of)
               THEN [top EXCEPT !.errors = @ \o top.branch_errors] ELSE top))

\* oneOf that goes on after the second subschema that passes
OneOf_no_break ==
    /\ At("oneOf")
    /\ \/ /\ ~top.wait
          /\ top.i < Len(self.one_of)
          /\ validate_self(top, self.one_of[top.i + 1], <<"oneOf", "/">> \o to_string(top.i))
       \/ /\ top.wait
          /\ Continue(after_branch(top, ret, top.i))
       \/ /\ ~top.wait
          /\ top.i = Len(self.one_of)
          /\ Continue(Advance(
               IF self.one_of = <<>> THEN top
               ELSE IF top.matched = <<>>
               THEN [top EXCEPT !.errors = @ \o top.branch_errors]
               ELSE IF Len(top.matched) > 1
               THEN [top EXCEPT !.errors =
                       Append(@, error(stack, <<"oneOf">>, KindGot("OneOf", top.matched)))]
               ELSE top))

\* oneOf --
OneOf ==
    /\ At("oneOf")
    /\ \/ /\ ~top.wait
          /\ top.i < Len(self.one_of)
          /\ Len(top.matched) < 2
          /\ validate_self(top, self.one_of[top.i + 1], <<"oneOf", "/">> \o to_string(top.i))
       \/ /\ top.wait
          /\ Continue(after_branch(top, ret, top.i))
       \/ /\ ~top.wait
          /\ top.i = Len(self.one_of) \/ Len(top.matched) = 2
          /\ Continue(Advance(
               IF self.one_of = <<>> THEN top
               ELSE IF top.matched = <<>>
               THEN [top EXCEPT !.errors = @ \o top.branch_errors]
               ELSE IF Len(top.matched) > 1
               THEN [top EXCEPT !.errors =
                       Append(@, error(stack, <<"oneOf">>, KindGot("OneOf", top.matched)))]
               ELSE top))

\* validate_self(if_).is_ok(): the Uneval is merged, the error is dropped
after_if(f, r) == [after_validate_self(f, r) EXCEPT !.errors = f.errors]

\* if/then/else that runs else whenever it is present
IfThenElse_else_always ==
    /\ At("if")
    /\ \/ /\ ~top.wait
          /\ top.branch = ""
          /\ self.if_ # <<>>
          /\ validate_self([top EXCEPT !.branch = "if"], self.if_[1], <<"if">>)
       \/ /\ top.wait
          /\ top.branch = "if"
          /\ IF self.else_ # <<>>
             THEN validate_self([after_if(top, ret) EXCEPT !.branch = "else"],
                                self.else_[1], <<"else">>)
             ELSE Continue(Advance(after_if(top, ret)))
       \/ /\ top.wait
          /\ top.branch \in {"then", "else"}
          /\ Continue(Advance(after_validate_self(top, ret)))
       \/ /\ ~top.wait
          /\ self.if_ = <<>>
          /\ Continue(Advance(top))

\* if, then, else --
IfThenElse ==
    /\ At("if")
    /\ \/ /\ ~top.wait
          /\ top.branch = ""
          /\ self.if_ # <<>>
          /\ validate_self([top EXCEPT !.branch = "if"], self.if_[1], <<"if">>)
       \/ /\ top.wait
          /\ top.branch = "if"
          /\ IF ret.ok
             THEN IF self.then # <<>>
                  THEN validate_self([after_if(top, ret) EXCEPT !.branch = "then"],
                                     self.then[1], <<"then">>)
                  ELSE Continue(Advance(after_if(top, ret)))
             ELSE IF self.else_ # <<>>
                  THEN validate_self([after_if(top, ret) EXCEPT !.branch = "else"],
                                     self.else_[1], <<"else">>)
                  ELSE Continue(Advance(after_if(top, ret)))
       \/ /\ top.wait
          /\ top.branch \in {"then", "else"}
          /\ Continue(Advance(after_validate_self(top, ret)))
       \/ /\ ~top.wait
          /\ self.if_ = <<>>
          /\ Continue(Advance(top))

\* unevaluatedProps --
UnevaluatedProperties ==
    /\ At("unevaluatedProperties")
    /\ \/ /\ ~top.wait
          /\ \E n \in top.todo :
                validate([top EXCEPT !.todo = @ \ {n}],
                         self.unevaluated_properties[1], <<"unevaluatedProperties">>,
                         top.v.obj[n].v, escape(top.v.obj[n].k))
       \/ /\ top.wait
          /\ Continue(after_validate(top, ret))
       \/ /\ ~top.wait
          /\ top.todo = {}
          /\ Continue(Advance(
               IF top.v.type = "Object" /\ self.unevaluated_properties # <<>>
               THEN [top EXCEPT !.props = {}] ELSE top))

\* unevaluatedItems --
UnevaluatedItems ==
    /\ At("unevaluatedItems")
    /\ \/ /\ ~top.wait
          /\ \E i \in top.todo :
                validate([top EXCEPT !.todo = @ \ {i}],
                         self.unevaluated_items[1], <<"unevaluatedItems">>,
                         top.v.arr[i + 1], to_string(i))
       \/ /\ top.wait
          /\ Continue(after_validate(top, ret))
       \/ /\ ~top.wait
          /\ top.todo = {}
          /\ Continue(Advance(
               IF top.v.type = "Array" /\ self.unevaluated_items # <<>>
               THEN [top EXCEPT !.items = {}] ELSE top))

\* the aggregation with a Group around a single error too
Result_group_of_one ==
    /\ At("result")
    /\ Return(
         IF Len(top.errors) = 0 THEN Ret(TRUE, NoErr, top, top)
         ELSE Ret(FALSE, [error(stack, <<>>, Kind("Group")) EXCEPT !.causes = top.errors],
                  top, top))

\* match errors.len() { 0 => Ok(_uneval), 1 => Err(errors.remove(0)), _ => Group }
Result ==
    /\ At("result")
    /\ Return(
         IF Len(top.errors) = 0 THEN Ret(TRUE, NoErr, top, top)
         ELSE IF Len(top.errors) = 1 THEN Ret(FALSE, top.errors[1], top, top)
         ELSE Ret(FALSE, [error(stack, <<>>, Kind("Group")) EXCEPT !.causes = top.errors],
                  top, top))

Next ==
    \/ CompileStart
    \/ CompileOne
    \/ \E v \in Values, sch_index \in 0..Len(list) : Validate(v, sch_index)
    \/ ValidateReturn
    \/ CycleGuard
    \/ Boolean
    \/ TypeKw
    \/ Required
    \/ Properties
    \/ AdditionalProperties
    \/ Ref
    \/ RecursiveRef
    \/ DynamicRef
    \/ Not
    \/ AllOf
    \/ DependentSchemas
    \/ PatternProperties
    \/ ItemsKw
    \/ AdditionalItems
    \/ PrefixItems
    \/ Items2020
    \/ Contains
    \/ Minimum
    \/ AnyOf
    \/ OneOf
    \/ IfThenElse
    \/ UnevaluatedProperties
    \/ UnevaluatedItems
    \/ Result

Spec == Init /\ [][Next]_vars

\* the steps of a running Schemas::validate call
Run ==
    \/ ValidateReturn
    \/ CycleGuard
    \/ Boolean
    \/ TypeKw
    \/ Required
    \/ Properties
    \/ AdditionalProperties
    \/ Ref
    \/ RecursiveRef
    \/ DynamicRef
    \/ Not
    \/ AllOf
    \/ DependentSchemas
    \/ PatternProperties
    \/ ItemsKw
    \/ AdditionalItems
    \/ PrefixItems
    \/ Items2020
    \/ Contains
    \/ Minimum
    \/ AnyOf
    \/ OneOf
    \/ IfThenElse
    \/ UnevaluatedProperties
    \/ UnevaluatedItems
    \/ Result

\* a call that started runs on to its end: one thread, nothing suspends it
LiveSpec == Init /\ [][Next]_vars /\ WF_vars(Run)

\* the url loader on its own: no document is compiled
LoaderInit ==
    /\ doc = DocBool
    /\ list = <<>>
    /\ map = [l \in {} |-> 0]
    /\ queue = <<>>
    /\ issued = {}
    /\ phase = "start"
    /\ call = <<>>
    /\ stack = <<>>
    /\ ret = NoRet
    /\ result = NoResult
    /\ loader = DefaultUrlLoader_new
    /\ loaded = NoLoad
    /\ root = Root0
    /\ resolved = NoResolved
    /\ prev = NoPrev
    /\ parked = NoParked
    /\ output = NoOutput

LoaderSpec == LoaderInit /\ [][LoaderNext]_vars

\* check_duplicate_id that remembers the id of the last resource only
RECURSIVE check_duplicate_id_last_only(_, _, _, _)
check_duplicate_id_last_only(r, order, k, m) ==
    IF k > Len(order) THEN RootOk(<<>>)
    ELSE LET ptr == order[k]
             id == r.resources[ptr].id
         IN  IF id \in DOMAIN m
             THEN DuplicateId(r.url, id, ptr, m[id])
             ELSE check_duplicate_id_last_only(r, order, k + 1,
                                               [i \in {id} |-> ptr])

\* the loop of Root::check_duplicate_id over the resources in the order
\* `order`, from its k-th entry on, with the map m of the ids seen
RECURSIVE check_duplicate_id(_, _, _, _)
check_duplicate_id(r, order, k, m) ==
    IF k > Len(order) THEN RootOk(<<>>)
    ELSE LET ptr == order[k]
             id == r.resources[ptr].id
         IN  IF id \in DOMAIN m
             THEN DuplicateId(r.url, id, ptr, m[id])
             ELSE check_duplicate_id(r, order, k + 1, HashMap_insert(m, id, ptr))

\* a call of Root::resolve
Resolve(loc) ==
    /\ ~resolved.set
    /\ \E res \in resolve(root, loc) :
          resolved' = [set |-> TRUE, op |-> "resolve", arg |-> loc, res |-> res]
    /\ UNCHANGED <<doc, list, map, queue, issued, phase, call, stack, ret, result,
                   loader, loaded, root, prev, parked, output>>

\* a call of Root::check_duplicate_id: the HashMap is iterated in any order
CheckDuplicateId ==
    /\ ~resolved.set
    /\ \E order \in Orders(DOMAIN root.resources) :
          resolved' = [set |-> TRUE, op |-> "check_duplicate_id", arg |-> <<>>,
                       res |-> check_duplicate_id(root, order, 1, [i \in {} |-> <<>>])]
    /\ UNCHANGED <<doc, list, map, queue, issued, phase, call, stack, ret, result,
                   loader, loaded, root, prev, parked, output>>

\* the caller takes the result
RootReturn ==
    /\ resolved.set
    /\ resolved' = NoResolved
    /\ UNCHANGED <<doc, list, map, queue, issued, phase, call, stack, ret, result,
                   loader, loaded, root, prev, parked, output>>

RootNext ==
    \/ \E loc \in Locs : Resolve(loc)
    \/ CheckDuplicateId
    \/ RootReturn

\* a root on its own: no document is compiled, nothing is loaded
RootInit ==
    /\ doc = DocBool
    /\ list = <<>>
    /\ map = [l \in {} |-> 0]
    /\ queue = <<>>
    /\ issued = {}
    /\ phase = "start"
    /\ call = <<>>
    /\ stack = <<>>
    /\ ret = NoRet
    /\ result = NoResult
    /\ loader = DefaultUrlLoader_new
    /\ loaded = NoLoad
    /\ root \in Roots
    /\ resolved = NoResolved
    /\ prev = NoPrev
    /\ parked = NoParked
    /\ output = NoOutput

RootSpec == RootInit /\ [][RootNext]_vars

\* a second Schemas::validate call with the arguments of the call that has
\* just returned, on the same pool; history: the arguments and the result of
\* the first call are kept
ValidateAgain ==
    /\ phase = "done"
    /\ ~prev.set
    /\ prev' = [set |-> TRUE, call |-> call, result |-> result]
    /\ IF contains(call[1].sch_index)
       THEN /\ phase' = "validating"
            /\ stack' = <<Frame(list[call[1].sch_index + 1].index, <<>>, 0,
                                call[1].v, <<>>)>>
       ELSE /\ phase' = "panic"
            /\ stack' = stack
    /\ ret' = NoRet
    /\ result' = NoResult
    /\ UNCHANGED <<doc, list, map, queue, issued, call,
                   loader, loaded, root, resolved, parked, output>>

RepeatNext ==
    \/ Next
    \/ ValidateAgain

\* one pool, validated twice with the same arguments
RepeatSpec == Init /\ [][RepeatNext]_vars

\* the error e and every error below it
RECURSIVE Errors(_)
Errors(e) == {e} \cup UNION {Errors(e.causes[n]) : n \in DOMAIN e.causes}

\* basic_output is called on the error a validate call returned or on an
\* error of its tree (causes is a public field)
BasicOutput ==
    /\ phase = "done"
    /\ ~result.ok
    /\ \E e \in Errors(result.err) :
          output' = [set |-> TRUE, arg |-> e, unit |-> basic_output(e)]
    /\ UNCHANGED <<doc, list, map, queue, issued, phase, call, stack, ret, result,
                   loader, loaded, root, resolved, prev, parked>>

OutputNext ==
    \/ Next
    \/ BasicOutput

\* validate followed by the projection of its errors
OutputSpec == Init /\ [][OutputNext]_vars

\* a second thread calls Schemas::validate(&self, ..) on the shared pool with
\* the arguments of the remembered call; it does not run yet
Spawn ==
    /\ phase = "validating"
    /\ prev.set
    /\ parked.phase = "ready"
    /\ contains(prev.call[1].sch_index)
    /\ parked' = [phase |-> "validating", call |-> prev.call,
                  stack |-> <<Frame(list[prev.call[1].sch_index + 1].index, <<>>, 0,
                                    prev.call[1].v, <<>>)>>,
                  ret |-> NoRet, result |-> NoResult]
    /\ UNCHANGED <<doc, list, map, queue, issued, phase, call, stack, ret, result,
                   loader, loaded, root, resolved, prev, output>>

\* a switch between two calls that keep the value a subschema returned in one
\* place they share
Switch_shared_ret ==
    /\ parked.phase = "validating"
    /\ phase \in {"validating", "done"}
    /\ parked' = [phase |-> phase, call |-> call, stack |-> stack, ret |-> NoRet,
                  result |-> result]
    /\ phase' = parked.phase
    /\ call' = parked.call
    /\ stack' = parked.stack
    /\ ret' = ret
    /\ result' = parked.result
    /\ UNCHANGED <<doc, list, map, queue, issued, loader, loaded, root, resolved, prev, output>>

\* the scheduler takes the running thread off the processor and runs the other
\* one: what a call has built (scope chain, uneval sets, errors, its return
\* value) is on its own stack and goes with it, the pool stays where it is
Switch ==
    /\ parked.phase = "validating"
    /\ phase \in {"validating", "done"}
    /\ parked' = [phase |-> phase, call |-> call, stack |-> stack, ret |-> ret,
                  result |-> result]
    /\ phase' = parked.phase
    /\ call' = parked.call
    /\ stack' = parked.stack
    /\ ret' = parked.ret
    /\ result' = parked.result
    /\ UNCHANGED <<doc, list, map, queue, issued, loader, loaded, root, resolved, prev, output>>

ConcNext ==
    \/ Next
    \/ ValidateAgain
    \/ Spawn
    \/ Switch

\* the pools the two threads share
ConcDocs == {DocEx4, DocAddl, DocAllOf}

ConcInit ==
    /\ Init
    /\ doc \in ConcDocs

\* one pool shared by two threads that validate at the same time
ConcSpec == ConcInit /\ [][ConcNext]_vars

(***************************************************************************)
(* Properties                                                              *)
(***************************************************************************)
\* the call stack stays below its cap, so the cap never disables a call
StackBelowCap == Len(stack) < MaxStack

\* C3: the index enqueue returned for a location is the position at which
\* insert stores that location: a compiled location is mapped to that index
\* and the node there carries the location, a queued location at queue
\* position q was given list.len() + q, and once the queue is drained every
\* index ever returned is in range.
C3_IndexIsInsertPosition ==
    \A e \in issued :
        /\ e[1] \in DOMAIN map =>
              /\ map[e[1]] = e[2]
              /\ contains(e[2])
              /\ get(e[2]).loc = e[1]
        /\ e[1] \notin DOMAIN map =>
              /\ position(queue, e[1]) >= 0
              /\ e[2] = Len(list) + position(queue, e[1])
        /\ queue = <<>> => contains(e[2])

\* an index was returned before its target was compiled, and the target is
\* now at that index
C3_Witness ==
    /\ phase = "ready"
    /\ \E e \in issued : e[3] < e[2] /\ contains(e[2]) /\ get(e[2]).loc = e[1]
    /\ \E e \in issued : e[2] < e[3]

\* C4: the pool is consistent: list[map[loc]].loc = loc for every loc in
\* map, map has one entry per element of list, no two locations share an
\* index; and the list only grows, no element is ever replaced.
C4_PoolConsistent ==
    /\ [](/\ \A loc \in DOMAIN map : contains(map[loc]) /\ get(map[loc]).loc = loc
          /\ Cardinality(DOMAIN map) = Len(list)
          /\ \A l1, l2 \in DOMAIN map : map[l1] = map[l2] => l1 = l2)
    /\ [][/\ Len(list') >= Len(list)
          /\ \A n \in DOMAIN list : list'[n] = list[n]]_vars

\* a pool of several nodes, completely compiled
C4_Witness == phase = "ready" /\ Len(list) >= 4 /\ Cardinality(DOMAIN map) = Len(list)

\* every schema index stored in a compiled node
SubIndices(sch) ==
    {sch.resource}
    \cup {sch.dynamic_anchors[n].sch : n \in DOMAIN sch.dynamic_anchors}
    \cup {sch.properties[n].sch : n \in DOMAIN sch.properties}
    \cup {sch.additional_properties[n].sch : n \in DOMAIN sch.additional_properties}
    \cup {sch.ref_[n] : n \in DOMAIN sch.ref_}
    \cup {sch.recursive_ref[n] : n \in DOMAIN sch.recursive_ref}
    \cup {sch.dynamic_ref[n] : n \in DOMAIN sch.dynamic_ref}
    \cup {sch.all_of[n] : n \in DOMAIN sch.all_of}
    \cup {sch.any_of[n] : n \in DOMAIN sch.any_of}
    \cup {sch.one_of[n] : n \in DOMAIN sch.one_of}
    \cup {sch.if_[n] : n \in DOMAIN sch.if_}
    \cup {sch.then[n] : n \in DOMAIN sch.then}
    \cup {sch.else_[n] : n \in DOMAIN sch.else_}
    \cup {sch.dependent_schemas[n].sch : n \in DOMAIN sch.dependent_schemas}
    \cup {sch.pattern_properties[n].sch : n \in DOMAIN sch.pattern_properties}
    \cup {sch.unevaluated_properties[n] : n \in DOMAIN sch.unevaluated_properties}
    \cup {sch.items[n].sch : n \in DOMAIN sch.items}
    \cup UNION {{sch.items[n].list[m] : m \in DOMAIN sch.items[n].list} :
                   n \in DOMAIN sch.items}
    \cup {sch.additional_items[n].sch : n \in DOMAIN sch.additional_items}
    \cup {sch.prefix_items[n] : n \in DOMAIN sch.prefix_items}
    \cup {sch.items2020[n] : n \in DOMAIN sch.items2020}
    \cup {sch.contains[n] : n \in DOMAIN sch.contains}
    \cup {sch.not[n] : n \in DOMAIN sch.not}
    \cup {sch.unevaluated_items[n] : n \in DOMAIN sch.unevaluated_items}

\* C5: contains(i) holds exactly for i below the pool length; validate
\* panics exactly when its index is not contained, so never inside the
\* validation of a contained index, every index of a compiled pool being in
\* range; and a contained index stays contained and keeps its target.
C5_PanicIffNotContained ==
    /\ [](/\ \A i \in 0..(Len(list) + 1) : contains(i) <=> i < Len(list)
          /\ phase = "panic" => call # <<>> /\ stack = <<>> /\ ~contains(call[1].sch_index)
          /\ (call # <<>> /\ ~contains(call[1].sch_index)) => phase = "panic"
          /\ phase \in {"ready", "validating", "done"} =>
                \A n \in DOMAIN list : \A i \in SubIndices(list[n]) : contains(i))
    /\ [][\A i \in 0..Len(list) :
            contains(i) => (i + 1) \in DOMAIN list' /\ list'[i + 1] = list[i + 1]]_vars

\* a call on a contained index went through subschemas and came to its end
C5_Witness ==
    /\ phase = "done"
    /\ contains(call[1].sch_index)
    /\ Len(list) >= 3
    /\ ret.set /\ ret.pc = "result"

\* C6: Schemas::validate succeeds exactly when the node validation does; on
\* failure it returns a Schema error with the url of the schema's loc, empty
\* keyword and instance locations, and the node's error as its only cause.
\* The boolean schema true accepts every value, false fails with a single
\* FalseSchema cause.
C6_TopLevelResult ==
    phase = "done" =>
        LET sch == get(call[1].sch_index)
        IN  /\ result.ok <=> ret.ok
            /\ ~result.ok =>
                  /\ result.err.kind = "Schema"
                  /\ result.err.url = sch.loc
                  /\ result.err.keyword_location = <<>>
                  /\ result.err.instance_location = <<>>
                  /\ Len(result.err.causes) = 1
                  /\ result.err.causes[1] = ret.err
            /\ sch.boolean = <<TRUE>> => result.ok
            /\ sch.boolean = <<FALSE>> =>
                  /\ ~result.ok
                  /\ Len(result.err.causes) = 1
                  /\ result.err.causes[1].kind = "FalseSchema"

\* the false schema has rejected an object
C6_Witness ==
    /\ phase = "done"
    /\ get(call[1].sch_index).boolean = <<FALSE>>
    /\ call[1].v.type = "Object"
    /\ ~result.ok
    /\ result.err.kind = "Schema"

\* every Group in the error tree e has at least two causes
RECURSIVE GroupsHaveTwo(_)
GroupsHaveTwo(e) ==
    /\ e.kind = "Group" => Len(e.causes) >= 2
    /\ \A n \in DOMAIN e.causes : GroupsHaveTwo(e.causes[n])

\* C7: a node returns early only for RefCycle and for a boolean schema;
\* otherwise it returns after its last keyword: success with no recorded
\* error, the error itself with one, a Group of exactly the recorded errors
\* with two or more, so every Group has at least two causes.  Scenario 4:
\* {a: 1, b: 2} fails with the two causes Type at /a and
\* AdditionalProperties{got: [b]}.
C7_ErrorAggregation ==
    /\ ret.set =>
          /\ ret.pc \in {"cycle", "boolean", "result"}
          /\ ret.pc = "result" =>
                /\ Len(ret.errors) = 0 => ret.ok
                /\ Len(ret.errors) = 1 => ~ret.ok /\ ret.err = ret.errors[1]
                /\ Len(ret.errors) >= 2 =>
                      /\ ~ret.ok
                      /\ ret.err.kind = "Group"
                      /\ ret.err.causes = ret.errors
          /\ ~ret.ok => GroupsHaveTwo(ret.err)
    /\ (/\ phase = "done"
        /\ doc = DocEx4
        /\ call[1].sch_index = 0
        /\ call[1].v = JObj(<<Member("a", JNum(10)), Member("b", JNum(20))>>)) =>
          /\ ~result.ok
          /\ Len(ret.err.causes) = 2
          /\ ret.err.causes[1].kind = "Type"
          /\ ret.err.causes[1].instance_location = <<"/", "a">>
          /\ ret.err.causes[2].kind = "AdditionalProperties"
          /\ ret.err.causes[2].got = <<B>>

\* scenario 4 has been validated and its two errors grouped
C7_Witness ==
    /\ phase = "done"
    /\ doc = DocEx4
    /\ call[1].sch_index = 0
    /\ call[1].v = JObj(<<Member("a", JNum(10)), Member("b", JNum(20))>>)
    /\ ret.err.kind = "Group"
    /\ Len(ret.errors) = 2

\* the error tree e holds an error of kind k
RECURSIVE HasKind(_, _)
HasKind(e, k) == e.kind = k \/ \E n \in DOMAIN e.causes : HasKind(e.causes[n], k)

\* C1: Schemas::validate terminates.  Two frames on the same value never
\* run the same schema, but for the top frame when the cycle guard is about
\* to cut it, so a chain on one value holds at most one frame per pool node
\* beyond the guard; a descent strictly reduces the depth of the value; and
\* every call that started comes to its end.
C1_Terminates ==
    /\ [](phase = "validating" =>
            /\ \A j, k \in DOMAIN stack :
                  (j < k /\ stack[j].vid = stack[k].vid /\ stack[j].sch = stack[k].sch)
                      => (k = Len(stack) /\ stack[k].pc = "cycle")
            /\ \A d \in 0..Len(stack) :
                  Cardinality({j \in DOMAIN stack :
                                  stack[j].vid = d /\ stack[j].pc # "cycle"}) <= Len(list)
            /\ \A j \in 1..(Len(stack) - 1) :
                  \/ stack[j + 1].vid = stack[j].vid /\ stack[j + 1].v = stack[j].v
                  \/ /\ stack[j + 1].vid = stack[j].vid + 1
                     /\ Depth(stack[j + 1].v) < Depth(stack[j].v)
            /\ Len(stack) <= (Len(list) + 1) * (Depth(call[1].v) + 1)
            /\ StackBelowCap)
    /\ ((phase = "validating") ~> (phase = "done"))

\* a call on a nested value whose schema graph has a cycle has ended, the
\* cycle having been cut
C1_Witness ==
    /\ phase = "done"
    /\ Depth(call[1].v) >= 2
    /\ ~result.ok
    /\ HasKind(result.err, "RefCycle")

\* the scope chain of the call that returned last
RetChain == Append(stack, [sch |-> ret.sch, vid |-> ret.vid, kw_path |-> ret.kw_path])

\* some ancestor of the top scope of stk, reached through parents that all
\* have the vid of the top scope, has the schema of the top scope
SameValueAncestor(stk) ==
    \E j \in 1..(Len(stk) - 1) :
        /\ stk[j].sch = stk[Len(stk)].sch
        /\ \A k \in j..(Len(stk) - 1) : stk[k].vid = stk[Len(stk)].vid

\* C2: a node returns RefCycle at once, before any keyword, with no causes,
\* exactly when an ancestor scope reached through parents of the same vid
\* has its schema; an ancestor with the same schema beyond a descent into a
\* child value does not make it return RefCycle.
C2_RefCycleIffSameValueAncestor ==
    /\ ret.set =>
          /\ (ret.pc = "cycle") <=> SameValueAncestor(RetChain)
          /\ ret.pc = "cycle" =>
                /\ ~ret.ok
                /\ ret.err.kind = "RefCycle"
                /\ ret.err.causes = <<>>
                /\ ret.errors = <<>>
          /\ (/\ ~ret.ok
              /\ ret.err.kind = "RefCycle"
              /\ ret.err.keyword_location = kw_loc(RetChain, <<>>))
                => SameValueAncestor(RetChain)
    /\ (phase = "validating" /\ stack # <<>> /\ top.pc # "cycle")
          => ~SameValueAncestor(stack)

\* a node has returned RefCycle below an ancestor that runs the same schema
\* on the parent value
C2_Witness ==
    /\ ret.set
    /\ ret.pc = "cycle"
    /\ ret.err.kind = "RefCycle"
    /\ \E j \in DOMAIN stack : stack[j].sch = ret.sch /\ stack[j].vid < ret.vid

RefKws == {"$ref", "$recursiveRef", "$dynamicRef"}

\* C8: when the schema applied by $ref, $recursiveRef or $dynamicRef fails,
\* the node records exactly one error, of kind Reference, with the loc of
\* the schema applied as url, and with the causes of the target's Group, or
\* else the target's error, as causes; they are never empty.
C8_ReferenceError ==
    [][(/\ phase = "validating"
        /\ stack # <<>>
        /\ top.pc \in RefKws
        /\ top.wait
        /\ ~ret.ok) =>
          /\ Len(stack') = Len(stack)
          /\ LET before == stack[Len(stack)].errors
                 after == stack'[Len(stack)].errors
                 e == after[Len(after)]
             IN  /\ Len(after) = Len(before) + 1
                 /\ SubSeq(after, 1, Len(before)) = before
                 /\ e.kind = "Reference"
                 /\ e.url = get(ret.sch).loc
                 /\ ret.kw_path = <<stack[Len(stack)].pc>>
                 /\ e.causes = IF ret.err.kind = "Group" THEN ret.err.causes
                               ELSE <<ret.err>>
                 /\ e.causes # <<>>]_vars

\* a node holds a Reference error with the causes of the target's Group
C8_Witness ==
    /\ phase = "validating"
    /\ stack # <<>>
    /\ \E n \in DOMAIN top.errors :
          /\ top.errors[n].kind = "Reference"
          /\ Len(top.errors[n].causes) >= 2
          /\ top.errors[n].causes[1].kind # "Group"

\* the resource root of scope declares the dynamic anchor name
Declares(scope, name) ==
    \E n \in DOMAIN get(get(scope.sch).resource).dynamic_anchors :
        get(get(scope.sch).resource).dynamic_anchors[n].k = name

\* the entry for name in the dynamic_anchors of the resource root of scope
Declared(scope, name) ==
    LET anchors == get(get(scope.sch).resource).dynamic_anchors
    IN  anchors[CHOOSE n \in DOMAIN anchors : anchors[n].k = name].sch

\* the scopes of chain whose resource root declares the dynamic anchor of
\* the schema static
DeclaringScopes(chain, static) ==
    IF get(static).dynamic_anchor = <<>> THEN {}
    ELSE {j \in DOMAIN chain : Declares(chain[j], get(static).dynamic_anchor[1])}

\* C9: the schema $dynamicRef applies is the entry for the dynamic anchor
\* name of the static target in the resource root of the outermost scope
\* whose resource root declares that name; it is the static target when the
\* target has no dynamic anchor or no scope's resource root declares it.
C9_DynamicRefOutermost ==
    (phase = "validating" /\ Len(stack) >= 2 /\ top.kw_path = <<"$dynamicRef">>) =>
        LET chain == SubSeq(stack, 1, Len(stack) - 1)
            static == get(chain[Len(chain)].sch).dynamic_ref[1]
            S == DeclaringScopes(chain, static)
        IN  IF S = {} THEN top.sch = static
            ELSE top.sch = Declared(chain[CHOOSE j \in S : \A k \in S : j <= k],
                                    get(static).dynamic_anchor[1])

\* an outer and an inner resource declare the name with different entries,
\* and the outer one is applied
C9_Witness ==
    /\ phase = "validating"
    /\ Len(stack) >= 2
    /\ top.kw_path = <<"$dynamicRef">>
    /\ LET chain == SubSeq(stack, 1, Len(stack) - 1)
           static == get(chain[Len(chain)].sch).dynamic_ref[1]
           S == DeclaringScopes(chain, static)
       IN  /\ top.sch # static
           /\ \E j, k \in S :
                 /\ j < k
                 /\ Declared(chain[j], get(static).dynamic_anchor[1])
                      # Declared(chain[k], get(static).dynamic_anchor[1])
                 /\ top.sch = Declared(chain[j], get(static).dynamic_anchor[1])

\* C10: the schema $recursiveRef applies is, when the static target has
\* recursive_anchor, the root schema of the resource of the outermost scope
\* whose resource root has recursive_anchor, and the static target itself
\* when the static target has no recursive_anchor.
C10_RecursiveRefResourceRoot ==
    (phase = "validating" /\ Len(stack) >= 2 /\ top.kw_path = <<"$recursiveRef">>) =>
        LET chain == SubSeq(stack, 1, Len(stack) - 1)
            static == get(chain[Len(chain)].sch).recursive_ref[1]
            S == {j \in DOMAIN chain : get(get(chain[j].sch).resource).recursive_anchor}
        IN  IF ~get(static).recursive_anchor \/ S = {} THEN top.sch = static
            ELSE top.sch = get(chain[CHOOSE j \in S : \A k \in S : j <= k].sch).resource

ABC == JObj(<<Member("a", JNum(10)), Member("b", JNum(20)), Member("c", JNum(30))>>)
AB == JObj(<<Member("a", JNum(10)), Member("b", JNum(20))>>)

\* the finished call Schemas::validate(v, 0) on the pool of document d
Done(d, v) ==
    phase = "done" /\ doc = d /\ call[1].sch_index = 0 /\ call[1].v = v

\* the error tree e holds an error whose got list has the key k
RECURSIVE HasGot(_, _)
HasGot(e, k) ==
    \/ \E n \in DOMAIN e.got : e.got[n] = k
    \/ \E n \in DOMAIN e.causes : HasGot(e.causes[n], k)

\* the step is a call made by keyword kw of the top frame
Calls(kw) ==
    /\ phase = "validating" /\ stack # <<>> /\ top.pc = kw
    /\ Len(stack') = Len(stack) + 1

\* the top frame leaves keyword kw
Leaves(kw) ==
    /\ phase = "validating" /\ stack # <<>> /\ top.pc = kw
    /\ Len(stack') = Len(stack) /\ stack'[Len(stack)].pc # kw

\* C11 as stated: {a, b, c} is rejected by an error that has c in its got
\* list.
C11_Original ==
    Done(DocUneval, ABC) => ~result.ok /\ HasGot(result.err, C)

\* C11: with unevaluatedProperties: false and allOf of properties a and
\* properties b, {a, b} is accepted and {a, b, c} is rejected, by the
\* FalseSchema error of the unevaluatedProperties subschema at instance
\* location /c; unevaluatedProperties is the last keyword of a node that
\* applies to an object (unevaluatedItems alone follows it, and applies to
\* arrays), it is applied to exactly the keys left in uneval.props, each once
\* (those keys are c alone in the example), and it leaves uneval.props empty.
C11_UnevaluatedProperties ==
    /\ [](/\ Done(DocUneval, AB) => result.ok
          /\ Done(DocUneval, ABC) =>
                /\ ~result.ok
                /\ ret.err.kind = "FalseSchema"
                /\ ret.err.got = <<>>
                /\ ret.err.instance_location = <<"/", "c">>
                /\ ret.err.keyword_location = <<"/", "unevaluatedProperties">>
          /\ (At("unevaluatedProperties") /\ doc = DocUneval /\ Len(stack) = 1
                /\ top.sch = 0 /\ top.v.type = "Object") =>
                top.props = ObjKeys(top.v) \ {A, B}
          /\ At("unevaluatedProperties") =>
                /\ NextPc(top.pc) = "unevaluatedItems"
                /\ NextPc("unevaluatedItems") = "result"
                /\ \A n \in top.todo : top.v.obj[n].k \in top.props
                /\ (self.unevaluated_properties = <<>> \/ top.v.type # "Object")
                      => top.todo = {}
          /\ (At("unevaluatedItems") /\ top.v.type # "Array") => top.todo = {})
    /\ [][/\ (stack # <<>> /\ stack' # <<>> /\ Len(stack') = Len(stack)
              /\ top.pc # "unevaluatedProperties"
              /\ stack'[Len(stack)].pc = "unevaluatedProperties"
              /\ get(top.sch).unevaluated_properties # <<>>
              /\ top.v.type = "Object") =>
                 {top.v.obj[n].k : n \in stack'[Len(stack)].todo}
                    = stack'[Len(stack)].props
          /\ Calls("unevaluatedProperties") =>
                \E n \in top.todo :
                    /\ stack'[Len(stack)].todo = top.todo \ {n}
                    /\ stack'[Len(stack')].sch = self.unevaluated_properties[1]
                    /\ stack'[Len(stack')].v = top.v.obj[n].v
                    /\ stack'[Len(stack')].vloc = top.vloc \o <<"/">> \o top.v.obj[n].k
                    /\ stack'[Len(stack')].vid = top.vid + 1
          /\ Leaves("unevaluatedProperties") =>
                /\ top.todo = {}
                /\ (self.unevaluated_properties # <<>> /\ top.v.type = "Object")
                      => stack'[Len(stack)].props = {}]_vars

\* {a, b, c} has been rejected for its unevaluated key
C11_Witness ==
    /\ Done(DocUneval, ABC)
    /\ ~result.ok
    /\ ret.err.kind = "FalseSchema"

\* a step in which the top frame takes up the result of the call it made
\* for keyword kw
Resumes(kw) ==
    /\ phase = "validating" /\ stack # <<>> /\ top.pc = kw /\ top.wait
    /\ Len(stack') = Len(stack)

\* the uneval of frame g is that of frame f merged with the Uneval r
Merged(f, r, g) ==
    /\ g.props = f.props \cap r.props
    /\ g.items = f.items \cap r.items

\* C12: anyOf validates every subschema, on the same value, also after one
\* has passed; the Uneval of a passing subschema is merged into the node's,
\* that of a failing one leaves it unchanged; no error is recorded while the
\* subschemas run, and at the end the errors of all subschemas are added if
\* none passed, and nothing otherwise.  On {anyOf: [a is a number, b is
\* required, object or array], unevaluatedProperties: false}: {a, b, c} is
\* rejected at /c alone, {a: "x"} at /a alone, and "x" by the three errors
\* of the subschemas.
C12_AnyOf ==
    /\ [](/\ Done(DocAnyOf, ABC) =>
                /\ ret.err.kind = "FalseSchema"
                /\ ret.err.instance_location = <<"/", "c">>
          /\ Done(DocAnyOf, JObj(<<Member("a", JStr(<<"x">>))>>)) =>
                /\ ret.err.kind = "FalseSchema"
                /\ ret.err.instance_location = <<"/", "a">>
          /\ Done(DocAnyOf, JStr(<<"x">>)) =>
                /\ ret.err.kind = "Group"
                /\ Len(ret.err.causes) = 3
                /\ \A n \in 1..3 :
                      /\ ret.err.causes[n].kind = "Type"
                      /\ ret.err.causes[n].keyword_location
                            = <<"/", "anyOf", "/">> \o to_string(n - 1) \o <<"/", "type">>)
    /\ [][/\ Calls("anyOf") =>
                /\ top.i < Len(self.any_of)
                /\ stack'[Len(stack')].sch = self.any_of[top.i + 1]
                /\ stack'[Len(stack')].v = top.v
                /\ stack'[Len(stack')].vid = top.vid
          /\ Resumes("anyOf") =>
                LET f == stack'[Len(stack)]
                IN  /\ f.i = top.i + 1
                    /\ f.errors = top.errors
                    /\ ret.ok => /\ Merged(top, ret, f)
                                 /\ f.branch_errors = top.branch_errors
                    /\ ~ret.ok => /\ f.props = top.props /\ f.items = top.items
                                  /\ f.branch_errors = Append(top.branch_errors, ret.err)
          /\ Leaves("anyOf") =>
                LET f == stack'[Len(stack)]
                IN  /\ top.i = Len(self.any_of)
                    /\ f.props = top.props /\ f.items = top.items
                    /\ f.errors =
                          IF Len(top.branch_errors) = top.i
                          THEN top.errors \o top.branch_errors
                          ELSE top.errors]_vars

\* the first subschema passed, a later one failed, and all three have run
C12_Witness ==
    /\ At("anyOf")
    /\ ~top.wait
    /\ top.i = 3
    /\ top.matched # <<>> /\ top.matched[1] = 0
    /\ top.branch_errors # <<>>
    /\ top.props # ObjKeys(top.v)

\* C13: oneOf validates its subschemas in order, on the same value, and
\* stops after the second one that passes.  The Uneval of a passing
\* subschema is merged into the node's.  At the end: if none passed the
\* errors of all subschemas are added; if exactly one passed nothing is
\* recorded; if two passed one OneOf error is recorded with the indices of
\* the two as got.  {oneOf: [integer, minimum 0]} gives OneOf{got: [0, 1]}
\* on 1 and the two errors of the subschemas on -0.5; with four subschemas
\* of which the first, second and fourth accept {a, b, c}, got is [0, 1].
C13_OneOf ==
    /\ [](/\ Done(DocOneOf, JNum(10)) =>
                /\ ret.err.kind = "OneOf"
                /\ ret.err.got = <<0, 1>>
                /\ ret.err.causes = <<>>
          /\ Done(DocOneOf, JNum(-5)) =>
                /\ ret.err.kind = "Group"
                /\ Len(ret.err.causes) = 2
                /\ ret.err.causes[1].kind = "Type"
                /\ ret.err.causes[2].kind = "Minimum"
          /\ Done(DocOneOf4, Nest(1)) => result.ok
          /\ Done(DocOneOf4, ABC) =>
                /\ ret.err.kind = "Group"
                /\ Len(ret.err.causes) = 2
                /\ ret.err.causes[1].kind = "OneOf"
                /\ ret.err.causes[1].got = <<0, 1>>
                /\ ret.err.causes[2].kind = "FalseSchema"
                /\ ret.err.causes[2].instance_location = <<"/", "c">>)
    /\ [][/\ Calls("oneOf") =>
                /\ top.i < Len(self.one_of)
                /\ Len(top.matched) < 2
                /\ stack'[Len(stack')].sch = self.one_of[top.i + 1]
                /\ stack'[Len(stack')].v = top.v
                /\ stack'[Len(stack')].vid = top.vid
          /\ Resumes("oneOf") =>
                LET f == stack'[Len(stack)]
                IN  /\ f.i = top.i + 1
                    /\ f.errors = top.errors
                    /\ ret.ok => /\ Merged(top, ret, f)
                                 /\ f.matched = Append(top.matched, top.i)
                                 /\ f.branch_errors = top.branch_errors
                    /\ ~ret.ok => /\ f.props = top.props /\ f.items = top.items
                                  /\ f.matched = top.matched
                                  /\ f.branch_errors = Append(top.branch_errors, ret.err)
          /\ Leaves("oneOf") =>
                LET f == stack'[Len(stack)]
                IN  /\ top.i = Len(self.one_of) \/ Len(top.matched) = 2
                    /\ Len(top.matched) <= 2
                    /\ f.props = top.props /\ f.items = top.items
                    /\ (self.one_of # <<>> /\ Len(top.matched) = 0) =>
                          f.errors = top.errors \o top.branch_errors
                    /\ (self.one_of = <<>> \/ Len(top.matched) = 1) =>
                          f.errors = top.errors
                    /\ Len(top.matched) = 2 =>
                          /\ Len(f.errors) = Len(top.errors) + 1
                          /\ SubSeq(f.errors, 1, Len(top.errors)) = top.errors
                          /\ f.errors[Len(f.errors)].kind = "OneOf"
                          /\ f.errors[Len(f.errors)].got = top.matched]_vars

\* oneOf stopped at its second passing subschema with two more to go
C13_Witness ==
    /\ At("oneOf")
    /\ ~top.wait
    /\ Len(top.matched) = 2
    /\ top.i = 2
    /\ Len(self.one_of) = 4

\* C14: `if` is validated on the same value and its error is never
\* recorded; `then` is validated exactly when `if` passed and `then` is
\* present, `else` exactly when `if` failed and `else` is present, and the
\* error of the one that ran is the only one recorded; without `if` nothing
\* is validated.  {if: a is required, then: a is a string, else: string}
\* accepts {a: "x"}, rejects {a: 1} in `then` and {} in `else`; `then` and
\* `else` without `if` reject nothing.
C14_IfThenElse ==
    /\ [](/\ Done(DocIf, JObj(<<Member("a", JStr(<<"x">>))>>)) => result.ok
          /\ Done(DocIf, Nest(1)) =>
                /\ ret.err.kind = "Type"
                /\ ret.err.keyword_location
                      = <<"/", "then", "/", "properties", "/", "a", "/", "type">>
          /\ Done(DocIf, JObj(<<>>)) =>
                /\ ret.err.kind = "Type"
                /\ ret.err.keyword_location = <<"/", "else", "/", "type">>
          /\ (phase = "done" /\ doc = DocIfPart /\ call[1].sch_index = 0) =>
                /\ ret.err.kind = "FalseSchema"
                /\ ret.err.keyword_location =
                      IF call[1].v.type = "Object"
                      THEN <<"/", "allOf", "/", "0", "/", "then">>
                      ELSE <<"/", "allOf", "/", "1", "/", "else">>)
    /\ [][/\ Calls("if") =>
                LET f == stack'[Len(stack)]
                    child == stack'[Len(stack')]
                IN  /\ self.if_ # <<>>
                    /\ child.v = top.v /\ child.vid = top.vid
                    /\ f.errors = top.errors
                    /\ ~top.wait => child.sch = self.if_[1] /\ child.kw_path = <<"if">>
                    /\ top.wait =>
                          /\ top.branch = "if"
                          /\ ret.sch = self.if_[1]
                          /\ ret.ok => /\ self.then # <<>>
                                       /\ child.sch = self.then[1]
                                       /\ child.kw_path = <<"then">>
                          /\ ~ret.ok => /\ self.else_ # <<>>
                                        /\ child.sch = self.else_[1]
                                        /\ child.kw_path = <<"else">>
          /\ Leaves("if") =>
                LET f == stack'[Len(stack)]
                IN  /\ ~top.wait => self.if_ = <<>> /\ f.errors = top.errors
                    /\ (top.wait /\ top.branch = "if") =>
                          /\ f.errors = top.errors
                          /\ ret.ok => self.then = <<>>
                          /\ ~ret.ok => self.else_ = <<>>
                    /\ (top.wait /\ top.branch # "if") =>
                          /\ ret.kw_path = <<top.branch>>
                          /\ f.errors = IF ret.ok THEN top.errors
                                        ELSE Append(top.errors, ret.err)]_vars

\* `if` passed and `then` has rejected the value
C14_Witness ==
    /\ Done(DocIf, Nest(1))
    /\ ~result.ok
    /\ ret.err.kind = "Type"

\* the Unevals of the running calls and of the last result
Unevals ==
    {[props |-> stack[n].props, items |-> stack[n].items] : n \in DOMAIN stack}
        \cup {[props |-> ret.props, items |-> ret.items]}

\* C15: the Uneval of a call stays within the keys / indices of its value
\* and never grows while the call runs; when a same-value subschema returns
\* successfully the caller's Uneval becomes the intersection of both, and a
\* failed one leaves it unchanged; a call returns Ok only with no error
\* recorded, and then returns the Uneval it holds; merging is idempotent and
\* independent of the order of the merged results.
C15_UnevalMerge ==
    /\ [](/\ \A n \in DOMAIN stack :
                stack[n].pc # "cycle" =>
                   /\ stack[n].props \subseteq Uneval_from(stack[n].v).props
                   /\ stack[n].items \subseteq Uneval_from(stack[n].v).items
          /\ (ret.set /\ ret.ok) => ret.errors = <<>>
          /\ \A a \in Unevals, b \in Unevals, c \in Unevals :
                /\ merge(merge(a, b), b) = merge(a, b)
                /\ merge(a, a) = a
                /\ merge(merge(a, b), c) = merge(merge(a, c), b)
                /\ \A k \in merge(a, b).props : k \in a.props /\ k \in b.props
                /\ \A k \in a.props : k \in b.props => k \in merge(a, b).props
                /\ \A k \in merge(a, b).items : k \in a.items /\ k \in b.items
                /\ \A k \in a.items : k \in b.items => k \in merge(a, b).items)
    /\ [][/\ \A n \in DOMAIN stack :
                (n \in DOMAIN stack' /\ stack[n].pc # "cycle") =>
                   /\ stack'[n].props \subseteq stack[n].props
                   /\ stack'[n].items \subseteq stack[n].items
          /\ (phase = "validating" /\ stack # <<>> /\ top.wait /\ ret.vid = top.vid) =>
                LET f == stack'[Len(stack)]
                IN  /\ Len(stack') >= Len(stack)
                    /\ ret.ok => Merged(top, ret, f)
                    /\ ~ret.ok => f.props = top.props /\ f.items = top.items
          /\ (phase = "validating" /\ stack # <<>> /\ Len(stack') < Len(stack)
                /\ ret'.ok) =>
                /\ top.errors = <<>>
                /\ ret'.props = top.props
                /\ ret'.items = top.items]_vars

\* both allOf subschemas of the unevaluatedProperties example have been
\* merged: each left c and one other key, only c remains
C15_Witness ==
    /\ phase = "validating"
    /\ doc = DocUneval
    /\ Len(stack) = 1
    /\ top.v = ABC
    /\ top.pc = "unevaluatedProperties"
    /\ ~top.wait
    /\ top.props = {C}

\* the keys of the object v that no name in properties and no pattern in
\* patternProperties of sch matches
Additional_keys(sch, v) ==
    {k \in ObjKeys(v) :
        /\ \A n \in DOMAIN sch.properties : sch.properties[n].k # k
        /\ \A n \in DOMAIN sch.pattern_properties :
              ~is_match(sch.pattern_properties[n].k, k)}

\* C16: on an object, additionalProperties: false records an
\* AdditionalProperties error iff some key is matched neither by a name in
\* properties nor by a pattern in patternProperties, with exactly those keys
\* as got; a schema-valued additionalProperties is applied to exactly those
\* keys; after additionalProperties no key is left in uneval.props.
C16_AdditionalProperties ==
    [][/\ (Leaves("patternProperties") /\ top.v.type = "Object"
            /\ self.additional_properties # <<>>
            /\ self.additional_properties[1].tag = "SchemaRef") =>
             {top.v.obj[n].k : n \in stack'[Len(stack)].todo}
                = Additional_keys(self, top.v)
       /\ Calls("additionalProperties") =>
             \E n \in top.todo :
                /\ stack'[Len(stack')].sch = self.additional_properties[1].sch
                /\ stack'[Len(stack')].v = top.v.obj[n].v
                /\ stack'[Len(stack)].todo = top.todo \ {n}
       /\ (Leaves("additionalProperties") /\ top.v.type = "Object"
            /\ self.additional_properties # <<>>) =>
             LET f == stack'[Len(stack)]
                 keys == Additional_keys(self, top.v)
                 additional == self.additional_properties[1]
             IN  /\ f.props = {}
                 /\ IF additional.tag = "Bool" /\ ~additional.b /\ keys # {}
                    THEN /\ Len(f.errors) = Len(top.errors) + 1
                         /\ f.errors[Len(f.errors)].kind = "AdditionalProperties"
                         /\ f.errors[Len(f.errors)].got \in Orders(keys)
                    ELSE additional.tag = "Bool" => f.errors = top.errors]_vars

\* the array ["x", 1]
X1 == JArr(<<JStr(<<"x">>), JNum(10)>>)

\* the smaller of k and the length of the array v
Covered(k, v) == IF k < Len(v.arr) THEN k ELSE Len(v.arr)

\* the indices of the array v from k on
IndicesFrom(k, v) == {n \in 0..(Len(v.arr) - 1) : n >= k}

\* C17, as stated: {prefixItems: [{type: string}], items: false} rejects
\* ["x", 1] with an error of kind AdditionalItems at index 1.
C17_Original ==
    Done(DocPrefix, X1) =>
        /\ ~result.ok
        /\ ret.err.kind = "AdditionalItems"
        /\ ret.err.instance_location = <<"/", "1">>

\* C17: on an array, single-schema items and items2020 leave no index in
\* uneval.items; an items list or prefixItems of k schemas validates and
\* removes the indices 0..min(k, len)-1, one after the other; items2020 is
\* applied to exactly the indices prefixItems does not cover, additionalItems
\* to exactly those left after items.  {prefixItems: [{type: string}],
\* items: false} rejects ["x", 1] with the FalseSchema error of the items
\* subschema at instance location /1.
C17_Items ==
    /\ [](Done(DocPrefix, X1) =>
            /\ ~result.ok
            /\ ret.err.kind = "FalseSchema"
            /\ ret.err.instance_location = <<"/", "1">>
            /\ ret.err.keyword_location = <<"/", "items">>)
    /\ [][LET f == stack'[Len(stack)]
              child == stack'[Len(stack')]
              all == Uneval_from(top.v).items
          IN
          /\ Calls("items") =>
                /\ top.i < Len(top.v.arr)
                /\ child.v = top.v.arr[top.i + 1]
                /\ f.i = top.i + 1
                /\ IF self.items[1].tag = "SchemaRef"
                   THEN child.sch = self.items[1].sch /\ f.items = top.items
                   ELSE /\ child.sch = self.items[1].list[top.i + 1]
                        /\ top.items = IndicesFrom(top.i, top.v)
                        /\ f.items = IndicesFrom(top.i + 1, top.v)
          /\ (Leaves("items") /\ top.v.type = "Array" /\ self.items # <<>>) =>
                /\ IF self.items[1].tag = "SchemaRef"
                   THEN top.i = Len(top.v.arr) /\ f.items = {}
                   ELSE /\ top.i = Covered(Len(self.items[1].list), top.v)
                        /\ f.items = IndicesFrom(top.i, top.v)
                /\ (self.additional_items # <<>>
                      /\ self.additional_items[1].tag = "SchemaRef") =>
                      f.todo = f.items
          /\ Calls("additionalItems") =>
                \E index \in top.todo :
                   /\ child.sch = self.additional_items[1].sch
                   /\ child.v = top.v.arr[index + 1]
                   /\ f.todo = top.todo \ {index}
          /\ (Leaves("additionalItems") /\ top.v.type = "Array"
                /\ self.additional_items # <<>>) =>
                /\ top.todo = {}
                /\ f.items = {}
                /\ IF self.additional_items[1].tag = "Bool"
                      /\ ~self.additional_items[1].b /\ top.items # {}
                   THEN /\ Len(f.errors) = Len(top.errors) + 1
                        /\ f.errors[Len(f.errors)].kind = "AdditionalItems"
                   ELSE self.additional_items[1].tag = "Bool" => f.errors = top.errors
          /\ Calls("prefixItems") =>
                /\ top.i < Covered(Len(self.prefix_items), top.v)
                /\ child.sch = self.prefix_items[top.i + 1]
                /\ child.v = top.v.arr[top.i + 1]
                /\ f.i = top.i + 1
                /\ f.items = top.items \ {top.i}
          /\ (Leaves("prefixItems") /\ top.v.type = "Array") =>
                /\ top.i = Covered(Len(self.prefix_items), top.v)
                /\ f.items = top.items
                /\ top.items \cap 0..(top.i - 1) = {}
                /\ (self.items = <<>> /\ self.additional_items = <<>>) =>
                      f.items = IndicesFrom(Len(self.prefix_items), top.v)
                /\ self.items2020 # <<>> => f.todo = f.items
          /\ Calls("items2020") =>
                \E index \in top.todo :
                   /\ child.sch = self.items2020[1]
                   /\ child.v = top.v.arr[index + 1]
                   /\ f.todo = top.todo \ {index}
          /\ (Leaves("items2020") /\ top.v.type = "Array" /\ self.items2020 # <<>>) =>
                /\ top.todo = {}
                /\ f.items = {}]_vars

\* prefixItems has covered index 0 and the false items subschema has
\* rejected index 1
C17_Witness ==
    /\ Done(DocPrefix, X1)
    /\ ~result.ok
    /\ ret.err.kind = "FalseSchema"

\* the path of url in the built-in meta-schema table, if it has one
TablePath(url) ==
    {path \in MetaPaths :
        \/ url = <<"http", "://", "json-schema.org/">> \o path
        \/ url = <<"https", "://", "json-schema.org/">> \o path}

\* C18: load answers a url under http(s)://json-schema.org/ whose remainder
\* is in the meta-schema table from that table, leaving the preloaded
\* resources alone and calling no loader; otherwise it returns the resource
\* preloaded for the url; otherwise it calls the loader registered for the
\* scheme of the url and returns its document, or its failure as a
\* LoadUrlError carrying the url; with no loader for the scheme it returns
\* UnsupportedUrlScheme.
C18_LoadPrecedence ==
    [][(~loaded.set /\ loaded'.set) =>
         LET url == loaded'.arg
             res == loaded'.res
         IN  IF TablePath(url) # {}
             THEN /\ \E path \in TablePath(url) :
                        res = LoadOk(JObj(<<Member("$id", JStr(path))>>))
                  /\ loader' = loader
             ELSE IF url \in DOMAIN loader.resources
             THEN res = LoadOk(loader.resources[url])
             ELSE IF scheme(url) \in DOMAIN loader.loaders
             THEN /\ loader' = loader
                  /\ \E r \in UrlLoader_load(loader.loaders[scheme(url)], url) :
                        IF r.ok THEN res = r
                        ELSE res = LoadErr("LoadUrlError", url, r.src)
             ELSE /\ loader' = loader
                  /\ res = LoadErr("UnsupportedUrlScheme", url, "")]_vars

\* a meta-schema url was loaded while a document was preloaded for it and a
\* failing loader registered for its scheme
C18_Witness ==
    /\ loaded.set
    /\ TablePath(loaded.arg) # {}
    /\ loaded.arg \in DOMAIN loader.resources
    /\ scheme(loaded.arg) \in DOMAIN loader.loaders
    /\ loader.loaders[scheme(loaded.arg)] = "Failing"
    /\ loaded.res.ok

\* the resources of root that resolve can match for the url of loc
Matched(loc) ==
    IF split(loc).url = root.url THEN {<<>>}
    ELSE {p \in DOMAIN root.resources : root.resources[p].id = split(loc).url}

\* the fragment is empty or a JSON pointer
IsPointer(frag) == frag = <<>> \/ frag[1] = "/"

\* C19, as stated: for a url that is the root url or the id of a resource,
\* the result is root.url#pointer with, for a JSON-pointer fragment, the
\* pointer of the matched resource followed by the fragment, and for an
\* anchor fragment the pointer recorded for the anchor in the matched
\* resource, or AnchorNotFound if it has none; any other location is
\* returned unchanged.
C19_Original ==
    (resolved.set /\ resolved.op = "resolve") =>
        LET loc == resolved.arg
            frag == split(loc).frag
            res == resolved.res
        IN  IF Matched(loc) = {} THEN res = RootOk(loc)
            ELSE \E p \in Matched(loc) :
                    LET anchors == root.resources[p].anchors
                    IN  IF IsPointer(frag)
                        THEN res = RootOk(root.url \o <<"#">> \o p \o frag)
                        ELSE IF percent_decode(frag) \in DOMAIN anchors
                        THEN res = RootOk(root.url \o <<"#">>
                                            \o anchors[percent_decode(frag)])
                        ELSE res = AnchorNotFound(root.url, loc)

\* C19: for a url that is the root url or the id of a resource, the result
\* is root.url#pointer with, for a JSON-pointer fragment, the percent-encoded
\* pointer of the matched resource followed by the fragment, and for an
\* anchor fragment the percent-encoded pointer recorded for the decoded
\* anchor name in the matched resource and in no other; it is AnchorNotFound
\* if the matched resource has no such anchor and ParseUrlError if the
\* anchor fragment does not decode; any other location is returned
\* unchanged.
C19_Resolve ==
    (resolved.set /\ resolved.op = "resolve") =>
        LET loc == resolved.arg
            frag == split(loc).frag
            res == resolved.res
        IN  IF Matched(loc) = {} THEN res = RootOk(loc)
            ELSE \E p \in Matched(loc) :
                    LET anchors == root.resources[p].anchors
                    IN  IF IsPointer(frag)
                        THEN res = RootOk(root.url \o <<"#">> \o percent_encode(p) \o frag)
                        ELSE IF \E n \in DOMAIN frag : frag[n] = "%FF"
                        THEN res = ParseUrlError(loc)
                        ELSE IF percent_decode(frag) \in DOMAIN anchors
                        THEN res = RootOk(root.url \o <<"#">>
                                     \o percent_encode(anchors[percent_decode(frag)]))
                        ELSE res = AnchorNotFound(root.url, loc)

\* an escaped anchor name was resolved in a resource that is not the root
\* resource, to a pointer that had to be encoded, while another resource
\* records another pointer for the same name
C19_Witness ==
    /\ resolved.set
    /\ resolved.op = "resolve"
    /\ resolved.arg = <<"i", "#", "%6E">>
    /\ resolved.res = RootOk(<<"r", "#", "/", "%20", "/", "%25">>)
    /\ <<>> \notin Matched(resolved.arg)
    /\ \E q \in DOMAIN root.resources :
          /\ q \notin Matched(resolved.arg)
          /\ <<"n">> \in DOMAIN root.resources[q].anchors
          /\ root.resources[q].anchors[<<"n">>] = <<"/", "a", "/", "x">>

\* C20: check_duplicate_id returns DuplicateId iff two resources at distinct
\* pointers have the same id; the error names an id and two distinct
\* pointers whose resources both have it; when it returns Ok the ids of the
\* resources are pairwise distinct.
C20_DuplicateId ==
    (resolved.set /\ resolved.op = "check_duplicate_id") =>
        LET res == resolved.res
            ptrs == DOMAIN root.resources
        IN  /\ res.ok \/ res.err = "DuplicateId"
            /\ ~res.ok <=> \E p \in ptrs, q \in ptrs :
                              p # q /\ root.resources[p].id = root.resources[q].id
            /\ ~res.ok =>
                  /\ res.url = root.url
                  /\ res.ptr1 \in ptrs /\ res.ptr2 \in ptrs
                  /\ res.ptr1 # res.ptr2
                  /\ root.resources[res.ptr1].id = res.id
                  /\ root.resources[res.ptr2].id = res.id
            /\ res.ok => \A p \in ptrs, q \in ptrs :
                            root.resources[p].id = root.resources[q].id => p = q

\* a duplicate was found among three resources of which only two share an id
C20_Witness ==
    /\ resolved.set
    /\ resolved.op = "check_duplicate_id"
    /\ resolved.res.err = "DuplicateId"
    /\ Cardinality(DOMAIN root.resources) = 3
    /\ Cardinality({root.resources[p].id : p \in DOMAIN root.resources}) = 2

\* C21: a validate call with the arguments of an earlier call on the same
\* pool returns the result of that call: the same validity and the same
\* error tree.
C21_Deterministic ==
    (phase = "done" /\ prev.set /\ prev.call = call) => result = prev.result

\* an error tree up to the order in which a HashSet of the call was iterated:
\* the names of an AdditionalProperties error and the causes of a node
RECURSIVE Canon(_)
Canon(e) ==
    [kind |-> e.kind,
     got |-> IF e.kind = "AdditionalProperties" THEN {e.got[i] : i \in DOMAIN e.got}
             ELSE {<<i, e.got[i]>> : i \in DOMAIN e.got},
     want |-> e.want,
     url |-> e.url,
     keyword_location |-> e.keyword_location,
     absolute_keyword_location |-> e.absolute_keyword_location,
     instance_location |-> e.instance_location,
     causes |-> {Canon(e.causes[i]) : i \in DOMAIN e.causes}]

\* the result of a call that ended equals the result of the call that ran alone
SameAsAlone(ph, c, r) ==
    (ph = "done" /\ prev.set /\ c = prev.call) =>
        /\ r.ok = prev.result.ok
        /\ ~r.ok => Canon(r.err) = Canon(prev.result.err)

\* C22: Schemas::validate never modifies the pool (list and map are the same
\* before and after every step of a validate call, whichever thread takes it),
\* and a call that is interleaved in any way with a concurrent call on the
\* same pool ends with the result it has when it runs alone: the same
\* validity and the same error tree (up to the order of a HashSet, C21).
C22_ReadOnlyPool ==
    /\ [][(list' = list /\ map' = map) \/ phase \in {"start", "compile"}]_vars
    /\ [](SameAsAlone(phase, call, result)
          /\ SameAsAlone(parked.phase, parked.call, parked.result))

\* both threads have ended, the second one started while the first one was
\* running, and the call failed with more than one cause
C22_Witness ==
    /\ phase = "done"
    /\ parked.phase = "done"
    /\ prev.set
    /\ ~result.ok
    /\ Len(result.err.causes[1].causes) > 1

\* a location without its trailing '#'
Bare(loc) == IF loc # <<>> /\ loc[Len(loc)] = "#" THEN SubSeq(loc, 1, Len(loc) - 1) ELSE loc

\* the locations of the document that no enqueue call has named yet
Fresh ==
    {doc.nodes[n].loc : n \in DOMAIN doc.nodes} \ ({e[1] : e \in issued} \cup DOMAIN map)

\* C23: enqueue treats a location without '#' as the location with '#'
\* appended; for a location that is in the map or in the queue it leaves the
\* queue as it is and returns the index the earlier call returned; any other
\* location is appended at the back of the queue.  The queue never holds a
\* location twice and never holds a location of the map.
C23_Enqueue ==
    /\ \A e \in issued :
          /\ enqueue(queue, e[1]).queue = queue
          /\ enqueue(queue, e[1]).index = e[2]
          /\ enqueue(queue, Bare(e[1])) = enqueue(queue, e[1])
    /\ \A l \in Fresh :
          /\ enqueue(queue, l).queue = Append(queue, l)
          /\ enqueue(queue, Bare(l)) = enqueue(queue, l)
    /\ \A n, k \in DOMAIN queue : queue[n] = queue[k] => n = k
    /\ \A n \in DOMAIN queue : queue[n] \notin DOMAIN map

\* the compile loop is under way: a location was named by two enqueue calls in
\* different rounds, the queue is not empty and a location is still unnamed
C23_Witness ==
    /\ phase = "compile"
    /\ \E e1, e2 \in issued : e1[1] = e2[1] /\ e1[3] # e2[3]
    /\ queue # <<>>
    /\ Fresh # {}

XNX == JArr(<<JStr(<<"x">>), JNum(10), JStr(<<"x">>)>>)

\* the indices of the array v whose item is a string
StringsOf(v) == {i \in 0..(Len(v.arr) - 1) : v.arr[i + 1].type = "String"}

\* C24: contains validates every item of the array, one after the other and
\* whatever the outcome of the items before; when it is left, the indices it
\* has recorded are exactly those of the items that pass; the recorded
\* indices are removed from uneval.items if and only if draft_version is at
\* least 2020, on earlier drafts uneval.items is as it was, so that
\* unevaluatedItems is applied to the items that only contains has matched.
C24_Contains ==
    /\ [][(/\ phase = "validating" /\ stack # <<>>
            /\ top.v.type = "Array" /\ self.contains # <<>>) =>
            /\ Calls("contains") =>
                  /\ top.i = Len(top.matched) + Len(top.branch_errors)
                  /\ stack'[Len(stack')].v = top.v.arr[top.i + 1]
                  /\ stack'[Len(stack')].sch = self.contains[1]
            /\ Resumes("contains") =>
                  /\ stack'[Len(stack)].i = top.i + 1
                  /\ stack'[Len(stack)].matched =
                        IF ret.ok THEN Append(top.matched, top.i) ELSE top.matched
                  /\ stack'[Len(stack)].items =
                        IF ret.ok /\ self.draft_version >= 2020
                        THEN top.items \ {top.i} ELSE top.items
            /\ Leaves("contains") =>
                  /\ top.i = Len(top.v.arr)
                  /\ Len(top.matched) + Len(top.branch_errors) = Len(top.v.arr)
                  /\ (doc \in {DocContains, DocContains19} /\ Len(stack) = 1) =>
                        /\ {top.matched[n] : n \in DOMAIN top.matched} = StringsOf(top.v)
                        /\ stack'[Len(stack)].items =
                              IF self.draft_version >= 2020
                              THEN (0..(Len(top.v.arr) - 1)) \ StringsOf(top.v)
                              ELSE 0..(Len(top.v.arr) - 1)]_vars
    /\ [](Done(DocContains19, XNX) =>
            /\ ~result.ok
            /\ Len(result.err.causes[1].causes) = 3)
    /\ [](Done(DocContains, XNX) =>
            /\ ~result.ok
            /\ result.err.causes[1].kind = "FalseSchema"
            /\ result.err.causes[1].instance_location = <<"/", "1">>)

\* contains has gone through ["x", 1, "x"] on a draft before 2020-12, two
\* items passed, one failed, and no index has left uneval.items
C24_Witness ==
    /\ doc = DocContains19
    /\ phase = "validating"
    /\ Len(stack) = 1
    /\ top.pc = "contains"
    /\ top.v = XNX
    /\ top.i = 3
    /\ top.matched = <<0, 2>>
    /\ Len(top.branch_errors) = 1
    /\ top.items = {0, 1, 2}

\* the keywords that apply their subschema to a property or an item
ChildKws ==
    {"properties", "patternProperties", "additionalProperties", "items",
     "additionalItems", "prefixItems", "contains", "unevaluatedProperties",
     "unevaluatedItems"}

\* the scope of frame j was made for a property or an item of its parent
Descent(j) == j > 1 /\ Head(stack[j].kw_path) \in ChildKws

\* the members and items of the value v
Children(v) ==
    {v.obj[n].v : n \in DOMAIN v.obj} \cup {v.arr[n] : n \in DOMAIN v.arr}

\* the number of reference tokens of a JSON pointer
Tokens(ptr) == Cardinality({n \in DOMAIN ptr : ptr[n] = "/"})

\* C25: in every scope of a validate call, vid is the number of descents into
\* a child value between the root scope and the scope, and the number of
\* tokens of the instance location under validation; a subschema for the same
\* value has the vid, the value and the location of its parent, a subschema
\* for a property or an item has the vid plus one and the location with one
\* more token; and what the call for a property or an item returns leaves the
\* uneval of the parent as it is.
C25_Vid ==
    /\ [](phase = "validating" =>
            \A j \in DOMAIN stack :
               /\ stack[j].vid = Cardinality({k \in 1..j : Descent(k)})
               /\ stack[j].vid = Tokens(stack[j].vloc)
               /\ j = 1 => stack[j].vid = 0 /\ stack[j].vloc = <<>>
               /\ (j > 1 /\ ~Descent(j)) =>
                     /\ stack[j].vid = stack[j - 1].vid
                     /\ stack[j].v = stack[j - 1].v
                     /\ stack[j].vloc = stack[j - 1].vloc
               /\ Descent(j) =>
                     /\ stack[j].vid = stack[j - 1].vid + 1
                     /\ stack[j].v \in Children(stack[j - 1].v)
                     /\ Len(stack[j].vloc) > Len(stack[j - 1].vloc)
                     /\ SubSeq(stack[j].vloc, 1, Len(stack[j - 1].vloc) + 1)
                           = stack[j - 1].vloc \o <<"/">>)
    /\ [][(/\ phase = "validating" /\ stack # <<>> /\ top.wait
            /\ Len(stack') = Len(stack)
            /\ top.pc \in ChildKws) =>
            /\ stack'[Len(stack)].props = top.props
            /\ stack'[Len(stack)].items \in {top.items, top.items \ {top.i}}
            /\ top.pc # "contains" => stack'[Len(stack)].items = top.items]_vars

\* the call for a property has returned its Uneval to a parent, itself a
\* subschema, that has names of its own left in uneval
C25_Witness ==
    /\ phase = "validating"
    /\ Len(stack) >= 2
    /\ top.wait
    /\ ret.set
    /\ ret.vid = top.vid + 1
    /\ ret.ok
    /\ top.props # {}
    /\ ret.props # top.props

\* the error tree e has an error raised under keyword kw, below it
RECURSIVE Below(_, _)
Below(e, kw) ==
    \/ \E n \in DOMAIN e.keyword_location :
          e.keyword_location[n] = kw /\ n < Len(e.keyword_location)
    \/ \E n \in DOMAIN e.causes : Below(e.causes[n], kw)

\* C26: not records a Not error if and only if the inner schema succeeds on
\* the same value; no error of the inner schema is in a result; and when the
\* inner schema fails, so that the node can succeed, not leaves the uneval of
\* the node as it is: {"allOf": [{"not": {"properties": {"a": {"type":
\* "string"}}}}], "unevaluatedProperties": false} rejects a and b of
\* {"a": 1, "b": 2} as unevaluated.
C26_Not ==
    /\ [][Calls("not") =>
            /\ stack'[Len(stack')].v = top.v
            /\ stack'[Len(stack')].vid = top.vid
            /\ stack'[Len(stack')].sch = self.not[1]]_vars
    /\ [][Resumes("not") =>
            LET g == stack'[Len(stack)]
            IN  /\ ret.ok =>
                      /\ Len(g.errors) = Len(top.errors) + 1
                      /\ g.errors[Len(g.errors)].kind = "Not"
                      /\ g.errors[Len(g.errors)].causes = <<>>
                      /\ g.errors[Len(g.errors)].instance_location = top.vloc
                /\ ~ret.ok =>
                      /\ g.errors = top.errors
                      /\ g.props = top.props
                      /\ g.items = top.items]_vars
    /\ [](phase = "done" /\ ~result.ok => ~Below(result.err, "not"))
    /\ [](Done(DocNot, AB) =>
            /\ ~result.ok
            /\ Len(result.err.causes[1].causes) = 2
            /\ \A n \in 1..2 :
                  result.err.causes[1].causes[n].keyword_location
                     = <<"/", "unevaluatedProperties">>)
    /\ [](Done(DocNot, JObj(<<Member("a", JStr(<<"x">>))>>)) =>
            /\ ~result.ok
            /\ HasKind(result.err, "Not"))

\* a node with not has succeeded on {"a": 1, "b": 2}: its inner schema failed
\* having evaluated a, and the node returns both names as unevaluated
C26_Witness ==
    /\ doc = DocNot
    /\ phase = "validating"
    /\ stack # <<>>
    /\ top.wait
    /\ ret.set
    /\ ret.ok
    /\ get(ret.sch).not # <<>>
    /\ ret.props = {A, B}

\* C27: for a url outside the meta-schema table, the load that finds a
\* preloaded document returns it, calls no loader and takes it out of the
\* preloaded resources; as long as no add_resource names the url again it
\* stays out, and a load that does not find it goes to the loader of the
\* scheme of the url, or returns UnsupportedUrlScheme when there is none.
\* add_resource for a url that has an unconsumed document replaces it.
C27_PreloadConsumed ==
    /\ [][(~loaded.set /\ loaded'.set /\ TablePath(loaded'.arg) = {}) =>
            LET url == loaded'.arg
                res == loaded'.res
            IN  IF url \in DOMAIN loader.resources
                THEN /\ res = LoadOk(loader.resources[url])
                     /\ url \notin DOMAIN loader'.resources
                     /\ loader'.resources = HashMap_remove(loader.resources, url)
                     /\ loader'.loaders = loader.loaders
                ELSE /\ loader' = loader
                     /\ IF scheme(url) \in DOMAIN loader.loaders
                        THEN \E r \in UrlLoader_load(loader.loaders[scheme(url)], url) :
                                IF r.ok THEN res = r
                                ELSE res = LoadErr("LoadUrlError", url, r.src)
                        ELSE res = LoadErr("UnsupportedUrlScheme", url, "")]_vars
    /\ [][(loaded' = loaded /\ loader'.resources # loader.resources) =>
            \E url \in Urls, json \in Preloads :
               /\ loader'.resources = HashMap_insert(loader.resources, url, json)
               /\ loader'.resources[url] = json
               /\ \A u \in DOMAIN loader.resources \ {url} :
                     loader'.resources[u] = loader.resources[u]]_vars
    /\ [][\A u \in Urls :
            (u \notin DOMAIN loader.resources /\ u \in DOMAIN loader'.resources) =>
               loaded' = loaded /\ loader'.loaders = loader.loaders]_vars

\* a load has returned the document preloaded for a url that is not in the
\* table and whose scheme has no loader, and the document is gone
C27_Witness ==
    /\ loaded.set
    /\ TablePath(loaded.arg) = {}
    /\ scheme(loaded.arg) \notin DOMAIN loader.loaders
    /\ loaded.res = LoadOk(JStr(<<"x">>))
    /\ loaded.arg \notin DOMAIN loader.resources

\* C28: when additionalItems is false, items is a tuple of k schemas and the
\* array has n > k elements, additionalItems records exactly one
\* AdditionalItems error, and its got is n - k, the number of additional items.
C28_AdditionalItems ==
    [][(/\ Leaves("additionalItems")
        /\ top.v.type = "Array"
        /\ self.items # <<>>
        /\ self.items[1].tag = "SchemaRefs"
        /\ self.additional_items # <<>>
        /\ self.additional_items[1].tag = "Bool"
        /\ ~self.additional_items[1].b
        /\ Len(top.v.arr) > Len(self.items[1].list)) =>
          LET g == stack'[Len(stack)]
          IN  /\ Len(g.errors) = Len(top.errors) + 1
              /\ g.errors[Len(g.errors)].kind = "AdditionalItems"
              /\ g.errors[Len(g.errors)].got
                    = <<Len(top.v.arr) - Len(self.items[1].list)>>]_vars

\* the instance location of every cause in the tree of e is that of its
\* parent or extends it by whole tokens
RECURSIVE LocTree(_)
LocTree(e) ==
    \A n \in DOMAIN e.causes :
       LET c == e.causes[n]
       IN  /\ \/ c.instance_location = e.instance_location
              \/ /\ Len(c.instance_location) > Len(e.instance_location)
                 /\ SubSeq(c.instance_location, 1, Len(e.instance_location) + 1)
                       = e.instance_location \o <<"/">>
           /\ LocTree(c)

\* an error of the tree of e whose location is n tokens deep has a cause that
\* is deeper
RECURSIVE Deepens(_, _)
Deepens(e, n) ==
    \/ /\ Tokens(e.instance_location) = n
       /\ \E k \in DOMAIN e.causes :
             Tokens(e.causes[k].instance_location) > n
    \/ \E k \in DOMAIN e.causes : Deepens(e.causes[k], n)

\* C29: the error Schemas::validate returns has the empty instance location,
\* and the instance location of every cause in its tree is the location of
\* its parent or that location extended by whole reference tokens; the same
\* holds of the error every subschema returns, below its own location.
C29_ErrorLocations ==
    /\ (phase = "done" /\ ~result.ok) =>
          /\ result.err.instance_location = <<>>
          /\ LocTree(result.err)
    /\ (phase = "validating" /\ ret.set /\ ~ret.ok) => LocTree(ret.err)

\* a failed call whose tree has an error one token deep with a cause that is
\* deeper
C29_Witness ==
    /\ phase = "done"
    /\ ~result.ok
    /\ Deepens(result.err, 1)

\* the errors below e in pre-order, each with its mark: it is a Reference
\* error or it lies below one in the tree (ref tells this of e)
RECURSIVE PreOrder(_, _)
PreOrder(e, ref) ==
    LET Sub[n \in 0..Len(e.causes)] ==
            IF n = 0 THEN <<>>
            ELSE LET c == e.causes[n]
                     r == ref \/ c.kind = "Reference"
                 IN  Sub[n - 1] \o <<[err |-> c, ref |-> r]>> \o PreOrder(c, r)
    IN  Sub[Len(e.causes)]

\* C30: basic_output of an error with causes is a flat list with one unit per
\* proper descendant of the error, in pre-order, every unit a leaf with
\* valid = false and the locations and the kind of its error; a unit has
\* absolute_keyword_location if and only if its error is a Reference error or
\* lies below a Reference error of the tree; the top-level unit never has
\* it; an error without causes gives one leaf unit.
C30_BasicOutput ==
    output.set =>
       LET e == output.arg
           u == output.unit
           d == PreOrder(e, e.kind = "Reference")
       IN  /\ u.valid = FALSE
           /\ u.absolute_keyword_location = <<>>
           /\ u.keyword_location = e.keyword_location
           /\ u.instance_location = e.instance_location
           /\ e.causes = <<>> => u.error = Leaf(e)
           /\ e.causes # <<>> =>
                 /\ u.error.tag = "Branch"
                 /\ Len(u.error.units) = Len(d)
                 /\ \A n \in DOMAIN d :
                       LET x == u.error.units[n]
                       IN  /\ x.valid = FALSE
                           /\ x.error = Leaf(d[n].err)
                           /\ x.keyword_location = d[n].err.keyword_location
                           /\ x.instance_location = d[n].err.instance_location
                           /\ x.absolute_keyword_location # <<>> <=> d[n].ref
                           /\ d[n].ref => x.absolute_keyword_location
                                           = <<d[n].err.absolute_keyword_location>>

====
